---- MODULE Spec2Model ----
(***************************************************************************)
(* Othello rules engine (mechanics.rs, gameplay.rs) and the Monte Carlo    *)
(* search tree built on it (mcst.rs).                                      *)
(*                                                                         *)
(* Encoding of the Rust values:                                            *)
(*   Players            "Black" | "White"                                  *)
(*   States             "Empty" | "Black" | "White"  (Taken(p) is p)       *)
(*   Option<States>     a States value, or "None" (off the board)          *)
(*   Turn               <<x, y>> for Some((x, y)),  <<>> for None (pass)   *)
(*   Board.pieces       pieces[y][x], y and x in 0..7                      *)
(*   Option<T>          [some |-> BOOLEAN, val |-> T]                      *)
(***************************************************************************)
EXTENDS Integers, Sequences, FiniteSets, TLC

\* ------------------------------------------------------------------ bounds
\* Moves are applied only while the half-move counter is below MaxTurn.
MaxTurn == 2

\* Board calls that add a stone are made only on boards with fewer than
\* MaxStones stones.
MaxStones == 6

\* A mock board (Gamestate::new_from) carries stones on the first
\* MaxMockCells cells of MockCells only.
MaxMockCells == 3

\* cycle() is called only while fewer than MaxCycles calls have returned
\* Ok(true) and the tree has fewer than MaxNodes nodes.
MaxCycles == 3

MaxNodes == 4

\* cycle() of an agent with BfsSelectionFast is called only while fewer
\* than MaxBfsCycles calls have returned Ok(true).
MaxBfsCycles == 17

\* next_two_moves of that agent is called only while its root has not
\* been replaced and the root's board has at most MaxEmptyCells empty
\* cells.
MaxEmptyCells == 3

\* play_memory_agents asks for a move only while fewer than MaxPlies moves
\* have been applied to its game.
MaxPlies == 10

\* The clock of BfsMemoryAgent::make_move and UctMemoryAgent::make_move
\* stops the loop after one to MaxThink cycles.
MaxThink == 2

\* The strings given to str_to_turns have at most MaxText characters (the
\* example of the documentation is given as well).
MaxText == 5

\* The lists given to turns_to_str have at most MaxListed turns.
MaxListed == 2

\* next() of BfsAllGamestates is called only while the level it scans is
\* at most MaxLevel.
MaxLevel == 4

\* The compact values given to compact_to_tensor have the same base-3 digit
\* in every cell but the first MaxFreeCells cells of FreeOrder, whose digits
\* are any.
MaxFreeCells == 4

\* --------------------------------------------------------------- constants
\* Side length of the board: the bound tested by Board::at.
BoardSize == 8

\* Width of the u8 coordinates and of the half-move counter.
U8 == 256

Players == {"Black", "White"}

Pass == <<>>

\* A turn that is legal in no game: its x is past the last column.
OffBoard == <<BoardSize, 0>>

Idx == 0..(BoardSize - 1)

Range(s) == {s[i] : i \in DOMAIN s}

Contains(s, e) == \E i \in DOMAIN s : s[i] = e

Other(p) == IF p = "Black" THEN "White" ELSE "Black"

\* Option.
None == [some |-> FALSE, val |-> <<>>]

Some(v) == [some |-> TRUE, val |-> v]

\* ------------------------------------------------------------ mechanics.rs
AROUND ==
    << <<255, 1>>,   <<0, 1>>,   <<1, 1>>,
       <<255, 0>>,               <<1, 0>>,
       <<255, 255>>, <<0, 255>>, <<1, 255>> >>

wrapping_add(a, d) == (a + d) % U8

Board_new == [y \in Idx |-> [x \in Idx |-> "Empty"]]

change(b, x, y, val) == [b EXCEPT ![y][x] = val]

\* Board::at indexing modulo the side length instead of testing the bounds.
at_wrapping(b, x, y) == b[y % BoardSize][x % BoardSize]

at(b, x, y) == IF x < BoardSize /\ y < BoardSize THEN b[y][x] ELSE "None"

RECURSIVE can_flip_toward_help(_, _, _, _, _, _)
can_flip_toward_help(b, x, y, dx, dy, origin) ==
    LET new_x == wrapping_add(x, dx)
        new_y == wrapping_add(y, dy)
        c     == at(b, new_x, new_y)
    IN  IF c \in Players
        THEN IF origin # c
             THEN IF can_flip_toward_help(b, new_x, new_y, dx, dy, origin) # "Invalid"
                  THEN "Valid"
                  ELSE "Invalid"
             ELSE "Degenerate"
        ELSE "Invalid"

can_flip_toward(b, x, y, dx, dy, origin) ==
    can_flip_toward_help(b, x, y, dx, dy, origin) = "Valid"

can_move(b, x, y, p) ==
    /\ at(b, x, y) = "Empty"
    /\ \E i \in DOMAIN AROUND :
          can_flip_toward(b, x, y, AROUND[i][1], AROUND[i][2], p)

\* The cells in the order of the two nested loops of Board::get_moves:
\* x outermost, y innermost.
ScanOrder == [i \in 1..(BoardSize * BoardSize) |->
                 << (i - 1) \div BoardSize, (i - 1) % BoardSize >>]

Board_get_moves(b, p) ==
    SelectSeq(ScanOrder, LAMBDA c : can_move(b, c[1], c[2], p))

\* flip_toward recording the cell it walks from instead of the cell it flips.
RECURSIVE flip_toward_pushes_origin(_, _, _, _, _, _)
flip_toward_pushes_origin(b, x, y, dx, dy, origin) ==
    LET new_x == wrapping_add(x, dx)
        new_y == wrapping_add(y, dy)
        c     == at(b, new_x, new_y)
    IN  IF c \in Players
        THEN IF origin # c
             THEN LET r == flip_toward_pushes_origin(b, new_x, new_y, dx, dy, origin)
                  IN  IF r.some
                      THEN [some  |-> TRUE,
                            val   |-> Append(r.val, <<x, y>>),
                            board |-> change(r.board, new_x, new_y, origin)]
                      ELSE [some |-> FALSE, val |-> <<>>, board |-> r.board]
             ELSE [some |-> TRUE, val |-> <<>>, board |-> b]
        ELSE [some |-> FALSE, val |-> <<>>, board |-> b]

\* Returns [some, val, board]: the Option<Vec> and the board as mutated.
RECURSIVE flip_toward(_, _, _, _, _, _)
flip_toward(b, x, y, dx, dy, origin) ==
    LET new_x == wrapping_add(x, dx)
        new_y == wrapping_add(y, dy)
        c     == at(b, new_x, new_y)
    IN  IF c \in Players
        THEN IF origin # c
             THEN LET r == flip_toward(b, new_x, new_y, dx, dy, origin)
                  IN  IF r.some
                      THEN [some  |-> TRUE,
                            val   |-> Append(r.val, <<new_x, new_y>>),
                            board |-> change(r.board, new_x, new_y, origin)]
                      ELSE [some |-> FALSE, val |-> <<>>, board |-> r.board]
             ELSE [some |-> TRUE, val |-> <<>>, board |-> b]
        ELSE [some |-> FALSE, val |-> <<>>, board |-> b]

\* The loop of Board::flip_all over AROUND[i..8], places threaded through.
RECURSIVE flip_all_loop(_, _, _, _, _, _)
flip_all_loop(b, x, y, origin, i, places) ==
    IF i > Len(AROUND)
    THEN [board |-> b, ret |-> places]
    ELSE LET r == flip_toward(b, x, y, AROUND[i][1], AROUND[i][2], origin)
         IN  flip_all_loop(r.board, x, y, origin, i + 1,
                           IF r.some THEN places \o r.val ELSE places)

\* Returns [board, ret]: the mutated board and the list of flipped cells.
flip_all(b, x, y) ==
    IF at(b, x, y) \in Players
    THEN flip_all_loop(b, x, y, at(b, x, y), 1, <<>>)
    ELSE [board |-> b, ret |-> <<>>]

\* flip_toward_fast_help flipping each opponent stone it walks over, whether
\* or not the run turns out to be bounded.
RECURSIVE flip_toward_fast_help_eager(_, _, _, _, _, _)
flip_toward_fast_help_eager(b, x, y, dx, dy, origin) ==
    LET new_x == wrapping_add(x, dx)
        new_y == wrapping_add(y, dy)
        c     == at(b, new_x, new_y)
    IN  IF c \in Players
        THEN IF origin # c
             THEN LET r == flip_toward_fast_help_eager(b, new_x, new_y, dx, dy, origin)
                  IN  [ft    |-> IF r.ft # "Invalid" THEN "Valid" ELSE "Invalid",
                       board |-> change(r.board, new_x, new_y, origin)]
             ELSE [ft |-> "Degenerate", board |-> b]
        ELSE [ft |-> "Invalid", board |-> b]

\* Returns [ft, board].
RECURSIVE flip_toward_fast_help(_, _, _, _, _, _)
flip_toward_fast_help(b, x, y, dx, dy, origin) ==
    LET new_x == wrapping_add(x, dx)
        new_y == wrapping_add(y, dy)
        c     == at(b, new_x, new_y)
    IN  IF c \in Players
        THEN IF origin # c
             THEN LET r == flip_toward_fast_help(b, new_x, new_y, dx, dy, origin)
                  IN  IF r.ft # "Invalid"
                      THEN [ft    |-> "Valid",
                            board |-> change(r.board, new_x, new_y, origin)]
                      ELSE [ft |-> "Invalid", board |-> r.board]
             ELSE [ft |-> "Degenerate", board |-> b]
        ELSE [ft |-> "Invalid", board |-> b]

\* Returns [ret, board].
flip_toward_fast(b, x, y, dx, dy, origin) ==
    LET r == flip_toward_fast_help(b, x, y, dx, dy, origin)
    IN  [ret |-> (r.ft = "Valid"), board |-> r.board]

RECURSIVE flip_all_fast_loop(_, _, _, _, _, _)
flip_all_fast_loop(b, x, y, origin, i, any) ==
    IF i > Len(AROUND)
    THEN [board |-> b, ret |-> any]
    ELSE LET r == flip_toward_fast(b, x, y, AROUND[i][1], AROUND[i][2], origin)
         IN  flip_all_fast_loop(r.board, x, y, origin, i + 1,
                                IF r.ret THEN TRUE ELSE any)

\* Returns [board, ret].
flip_all_fast(b, x, y) ==
    IF at(b, x, y) \in Players
    THEN flip_all_fast_loop(b, x, y, at(b, x, y), 1, FALSE)
    ELSE [board |-> b, ret |-> FALSE]

\* ------------------------------------------------------------- gameplay.rs
NoMoves == [some |-> FALSE, val |-> <<>>]

SomeMoves(l) == [some |-> TRUE, val |-> l]

\* A Gamestate is [board, turn, moves]; moves is the RefCell'd cache.
Gamestate_new ==
    [board |-> [Board_new EXCEPT ![3][3] = "White", ![4][4] = "White",
                                 ![4][3] = "Black", ![3][4] = "Black"],
     turn  |-> 0,
     moves |-> NoMoves]

Gamestate_new_from(board, turn) ==
    [board |-> board, turn |-> turn, moves |-> NoMoves]

\* gen_moves without the test for the end of the game.
gen_moves_pass_at_end(g) ==
    LET possible_turn == IF g.turn % 2 = 0 THEN "Black" ELSE "White"
        moves         == Board_get_moves(g.board, possible_turn)
    IN  IF moves = <<>> THEN <<Pass>> ELSE moves

\* gen_moves asking the side to move, not the opponent, whether the game
\* is over.
gen_moves_same_side(g) ==
    LET possible_turn == IF g.turn % 2 = 0 THEN "Black" ELSE "White"
        moves         == Board_get_moves(g.board, possible_turn)
        is_terminal   == IF moves # <<>>
                         THEN FALSE
                         ELSE Board_get_moves(g.board, possible_turn) = <<>>
    IN  IF is_terminal
        THEN <<>>
        ELSE IF moves = <<>> THEN <<Pass>> ELSE moves

gen_moves(g) ==
    LET possible_turn == IF g.turn % 2 = 0 THEN "Black" ELSE "White"
        Ending(moves) ==
            LET is_terminal == IF moves # <<>>
                               THEN FALSE
                               ELSE Board_get_moves(g.board, Other(possible_turn)) = <<>>
            IN  IF is_terminal
                THEN <<>>
                ELSE IF moves = <<>> THEN <<Pass>> ELSE moves
    IN  Ending(Board_get_moves(g.board, possible_turn))

\* The operations that take &self still write the cache: each of them
\* returns [game, ret] with the Gamestate as it is after the call.
get_moves(g) ==
    LET Filled(l) == [game |-> [g EXCEPT !.moves = SomeMoves(l)], ret |-> l]
    IN  IF g.moves.some
        THEN [game |-> g, ret |-> g.moves.val]
        ELSE Filled(gen_moves(g))

whose_turn(g) ==
    LET Match(r) ==
            [game |-> r.game,
             ret  |-> IF r.ret = <<>>
                      THEN "Empty"
                      ELSE IF g.turn % 2 = 0 THEN "Black" ELSE "White"]
    IN  Match(get_moves(g))

valid_move(g, m) ==
    LET Found(r) == [game |-> r.game, ret |-> Contains(r.ret, m)]
    IN  Found(get_moves(g))

\* make_move counting the half-move before it knows the move is legal.
make_move_from_counts_first(w, turn) ==
    IF w.ret \in Players /\ Contains(get_moves(w.game).ret, turn)
    THEN IF turn # Pass
         THEN LET f == flip_all(change(w.game.board, turn[1], turn[2], w.ret),
                                turn[1], turn[2])
              IN  [game |-> [board |-> f.board,
                             turn  |-> w.game.turn + 1,
                             moves |-> NoMoves],
                   ret  |-> [some |-> TRUE, val |-> f.ret]]
         ELSE [game |-> [w.game EXCEPT !.turn = @ + 1, !.moves = NoMoves],
               ret  |-> [some |-> TRUE, val |-> <<>>]]
    ELSE [game |-> [w.game EXCEPT !.turn = @ + 1],
          ret  |-> [some |-> FALSE, val |-> <<>>]]

\* The body of make_move once whose_turn() has returned w = [game, ret].
\* Returns [game, ret] where ret is the Option<Vec<(u8, u8)>>.
make_move_from(w, turn) ==
    LET Flipped(f) ==
            [game |-> [board |-> f.board,
                       turn  |-> w.game.turn + 1,
                       moves |-> NoMoves],
             ret  |-> [some |-> TRUE, val |-> f.ret]]
    IN  IF w.ret \in Players /\ Contains(get_moves(w.game).ret, turn)
        THEN IF turn # Pass
             THEN Flipped(flip_all(change(w.game.board, turn[1], turn[2], w.ret),
                                   turn[1], turn[2]))
             ELSE [game |-> [w.game EXCEPT !.turn = @ + 1, !.moves = NoMoves],
                   ret  |-> [some |-> TRUE, val |-> <<>>]]
        ELSE [game |-> w.game, ret |-> [some |-> FALSE, val |-> <<>>]]

\* make_move_fast taking a pass for legal whenever the game is not over.
make_move_fast_from_any_pass(w, turn) ==
    IF w.ret \in Players /\ (turn = Pass \/ Contains(get_moves(w.game).ret, turn))
    THEN IF turn # Pass
         THEN LET f == flip_all_fast(change(w.game.board, turn[1], turn[2], w.ret),
                                     turn[1], turn[2])
              IN  [game |-> [board |-> f.board,
                             turn  |-> w.game.turn + 1,
                             moves |-> NoMoves],
                   ret  |-> TRUE]
         ELSE [game |-> [w.game EXCEPT !.turn = @ + 1, !.moves = NoMoves],
               ret  |-> TRUE]
    ELSE [game |-> w.game, ret |-> FALSE]

\* make_move_fast counting the half-move only inside the coordinate branch.
make_move_fast_from_pass_uncounted(w, turn) ==
    IF w.ret \in Players /\ Contains(get_moves(w.game).ret, turn)
    THEN IF turn # Pass
         THEN LET f == flip_all_fast(change(w.game.board, turn[1], turn[2], w.ret),
                                     turn[1], turn[2])
              IN  [game |-> [board |-> f.board,
                             turn  |-> w.game.turn + 1,
                             moves |-> NoMoves],
                   ret  |-> TRUE]
         ELSE [game |-> [w.game EXCEPT !.moves = NoMoves],
               ret  |-> TRUE]
    ELSE [game |-> w.game, ret |-> FALSE]

\* The body of make_move_fast once whose_turn() has returned w.
\* Returns [game, ret] where ret is the bool.
\* make_move_fast keeping the cached list of the position it leaves.
make_move_fast_from_keeps_moves(w, turn) ==
    IF w.ret \in Players /\ Contains(get_moves(w.game).ret, turn)
    THEN IF turn # Pass
         THEN LET f == flip_all_fast(change(w.game.board, turn[1], turn[2], w.ret),
                                     turn[1], turn[2])
              IN  [game |-> [board |-> f.board,
                             turn  |-> w.game.turn + 1,
                             moves |-> w.game.moves],
                   ret  |-> TRUE]
         ELSE [game |-> [w.game EXCEPT !.turn = @ + 1],
               ret  |-> TRUE]
    ELSE [game |-> w.game, ret |-> FALSE]

\* make_move_fast flipping the stones around a cell it leaves empty.
make_move_fast_from_places_nothing(w, turn) ==
    IF w.ret \in Players /\ Contains(get_moves(w.game).ret, turn)
    THEN IF turn # Pass
         THEN LET f == flip_all_fast(change(w.game.board, turn[1], turn[2], w.ret),
                                     turn[1], turn[2])
              IN  [game |-> [board |-> change(f.board, turn[1], turn[2], "Empty"),
                             turn  |-> w.game.turn + 1,
                             moves |-> NoMoves],
                   ret  |-> TRUE]
         ELSE [game |-> [w.game EXCEPT !.turn = @ + 1, !.moves = NoMoves],
               ret  |-> TRUE]
    ELSE [game |-> w.game, ret |-> FALSE]

make_move_fast_from(w, turn) ==
    IF w.ret \in Players /\ Contains(get_moves(w.game).ret, turn)
    THEN IF turn # Pass
         THEN LET f == flip_all_fast(change(w.game.board, turn[1], turn[2], w.ret),
                                     turn[1], turn[2])
              IN  [game |-> [board |-> f.board,
                             turn  |-> w.game.turn + 1,
                             moves |-> NoMoves],
                   ret  |-> TRUE]
         ELSE [game |-> [w.game EXCEPT !.turn = @ + 1, !.moves = NoMoves],
               ret  |-> TRUE]
    ELSE [game |-> w.game, ret |-> FALSE]

make_move(g, turn) == make_move_from(whose_turn(g), turn)

make_move_fast(g, turn) == make_move_fast_from(whose_turn(g), turn)

\* The loop of make_moves_fast over turns[i..]: it stops at the first move
\* that fails and keeps the moves already made.
RECURSIVE make_moves_fast_loop(_, _, _)
make_moves_fast_loop(g, turns, i) ==
    LET Moved(r) ==
            IF ~r.ret
            THEN [game |-> r.game, ret |-> FALSE]
            ELSE make_moves_fast_loop(r.game, turns, i + 1)
    IN  IF i > Len(turns)
        THEN [game |-> g, ret |-> TRUE]
        ELSE Moved(make_move_fast(g, turns[i]))

make_moves_fast(g, turns) == make_moves_fast_loop(g, turns, 1)

\* Board::score: the sum over the rows of the sums of +1 for a Black
\* stone, -1 for a White stone, 0 for an empty cell. Both sums are i8:
\* Iterator::sum adds from the left, starting at 0; an addition that leaves
\* the i8 range panics in a build with overflow checks and wraps in one
\* without. A sum is [val, overflow]: the wrapped value, and whether one of
\* its additions left the range.

\* A stone counting twice.
piece_score_doubled(s) == IF s = "Black" THEN 2 ELSE IF s = "White" THEN -2 ELSE 0

\* The value of one cell.
piece_score(s) == IF s = "Black" THEN 1 ELSE IF s = "White" THEN -1 ELSE 0

I8 == (-(U8 \div 2))..((U8 \div 2) - 1)

RECURSIVE sum_i8(_, _, _)
sum_i8(vals, i, acc) ==
    IF i > Len(vals)
    THEN acc
    ELSE sum_i8(vals, i + 1,
                [val      |-> ((acc.val + vals[i] + (U8 \div 2)) % U8) - (U8 \div 2),
                 overflow |-> acc.overflow \/ (acc.val + vals[i]) \notin I8])

row_score(row) ==
    sum_i8([i \in 1..BoardSize |-> piece_score(row[i - 1])], 1,
           [val |-> 0, overflow |-> FALSE])

rows_score(b) ==
    sum_i8([i \in 1..BoardSize |-> row_score(b[i - 1]).val], 1,
           [val |-> 0, overflow |-> \E y \in Idx : row_score(b[y]).overflow])

Board_score(b) == rows_score(b).val

\* Whether Board::score panics (overflow checks on) or gives a wrapped
\* value (overflow checks off) on the board b.
score_overflows(b) == rows_score(b).overflow

score(g) == Board_score(g.board)

\* Gamestate::is_terminal, which mcst.rs calls: neither side has a
\* coordinate move.
is_terminal(g) ==
    /\ Board_get_moves(g.board, "Black") = <<>>
    /\ Board_get_moves(g.board, "White") = <<>>

\* #[derive(PartialEq)] on Gamestate: every field, the cache included.
Gamestate_eq(g1, g2) ==
    /\ g1.board = g2.board
    /\ g1.turn = g2.turn
    /\ g1.moves = g2.moves

\* #[derive(Clone)]: every field is copied, the cached list included.
clone(g) == g

\* ------------------------------------------------------------------ mcst.rs
\* A tree is a function from the paths of its nodes (sequences of Turn, the
\* empty path for the root) to [wins, total, game]; the children map of the
\* node at path p has the keys m for which Append(p, m) is a path.
McstNode_new(g) == [wins |-> 0, total |-> 0, game |-> g]

McstTree_new(g) == (<<>> :> McstNode_new(g))

HasPrefix(p, pre) ==
    /\ Len(p) >= Len(pre)
    /\ SubSeq(p, 1, Len(pre)) = pre

children(t, p) ==
    {q[Len(q)] : q \in {r \in DOMAIN t : Len(r) = Len(p) + 1 /\ HasPrefix(r, p)}}

\* McstNode::search from the root: the Option is Some exactly for the
\* paths of the tree.
search(t, path) == path \in DOMAIN t

\* node_count that does not descend below the children.
node_count_one_level(t, p) == 1 + Cardinality(children(t, p))

\* McstNode::node_count of the node at path p: one for the node, plus the
\* counts of its children.
RECURSIVE node_count(_, _)
node_count(t, p) ==
    LET RECURSIVE sum(_)
        sum(ms) == IF ms = {}
                   THEN 0
                   ELSE LET m == CHOOSE m \in ms : TRUE
                        IN  node_count(t, Append(p, m)) + sum(ms \ {m})
    IN  1 + sum(children(t, p))

\* update counting a win whatever the rollout's verdict.
update_win_unconditional(n, win) ==
    [n EXCEPT !.wins = @ + 1, !.total = @ + 1]

\* update counting a rollout in total only when it was lost.
update_total_on_loss(n, win) ==
    [n EXCEPT !.wins = IF win THEN @ + 1 ELSE @, !.total = IF win THEN @ ELSE @ + 1]

update(n, win) ==
    [n EXCEPT !.wins = IF win THEN @ + 1 ELSE @, !.total = @ + 1]

\* add_child storing the clone of the parent's game without the move.
add_child_unmoved(t, path, link) ==
    LET Insert(new_game) ==
            IF ~new_game.ret
            THEN [tree |-> t, panic |-> TRUE]
            ELSE [tree  |-> t @@ (Append(path, link) :> McstNode_new(clone(t[path].game))),
                  panic |-> FALSE]
    IN  IF search(t, path)
        THEN IF link \in children(t, path)
             THEN [tree |-> t, panic |-> TRUE]
             ELSE Insert(make_move_fast(clone(t[path].game), link))
        ELSE [tree |-> t, panic |-> TRUE]

\* Returns [tree, panic].
add_child(t, path, link) ==
    LET Insert(new_game) ==
            IF ~new_game.ret
            THEN [tree |-> t, panic |-> TRUE]
            ELSE [tree  |-> t @@ (Append(path, link) :> McstNode_new(new_game.game)),
                  panic |-> FALSE]
    IN  IF search(t, path)
        THEN IF link \in children(t, path)
             THEN [tree |-> t, panic |-> TRUE]
             ELSE Insert(make_move_fast(clone(t[path].game), link))
        ELSE [tree |-> t, panic |-> TRUE]

\* What a cycle, a decision or a re-rooting reports: the tree as the call
\* leaves it, the result, and for a cycle the final path, the rollout's
\* verdict, the moves the rollout played and the agent asked at each ply.
Outcome(t, ret, path, win, history, asked) ==
    [tree |-> t, ret |-> ret, path |-> path, win |-> win,
     history |-> history, asked |-> asked]

\* McstAgent::select, s being what the selection policy returned.
select(t, s) ==
    IF s.some
    THEN IF search(t, s.val) THEN "Some" ELSE "NotANode"
    ELSE "None"

\* expand putting a new node in the place of a child that exists already.
expand_resets_child(t, path, link) ==
    LET Check(m) ==
            IF Contains(m.ret, link)
            THEN IF link \in children(t, path)
                 THEN [tree |-> [t EXCEPT ![path].game = m.game,
                                          ![Append(path, link)].wins = 0,
                                          ![Append(path, link)].total = 0],
                       ret  |-> "Expansion::AlreadyExpanded"]
                 ELSE [tree |-> [t EXCEPT ![path].game = m.game], ret |-> "Ok"]
            ELSE [tree |-> [t EXCEPT ![path].game = m.game],
                  ret  |-> "Expansion::IllegalMove"]
    IN  Check(get_moves(t[path].game))

\* McstAgent::expand, link being what the expansion policy returned.
\* Returns [tree, ret]: get_moves() fills the cache of the node's game.
expand(t, path, link) ==
    LET Check(m) ==
            [tree |-> [t EXCEPT ![path].game = m.game],
             ret  |-> IF Contains(m.ret, link)
                      THEN IF link \in children(t, path)
                           THEN "Expansion::AlreadyExpanded"
                           ELSE "Ok"
                      ELSE "Expansion::IllegalMove"]
    IN  Check(get_moves(t[path].game))

\* Agent::make_move of the rollout agent and of the opponent agent, moves
\* being the legal moves of the game they are asked about:
\*   "Agent"        any implementation of the trait: a legal move, or a
\*                  turn that is not legal;
\*   "RandomAgent"  choose() with a generator that draws the lowest index
\*                  every time ("RandomAgent:first") or the highest
\*                  ("RandomAgent:last").
Agent_make_move(agents, moves) ==
    IF agents = "Agent"
    THEN Range(moves) \cup {OffBoard}
    ELSE IF agents = "RandomAgent:first"
    THEN {moves[1]}
    ELSE {moves[Len(moves)]}

\* The iteration keeping the same agent after a pass.
rollout_iteration_pass_keeps_agent(st, agents) ==
    LET who == IF st.my_turn THEN "rollout" ELSE "opponent"
        Moved(r, player_move) ==
            [game         |-> r.game,
             my_turn      |-> IF r.ret /\ player_move # Pass
                              THEN ~st.my_turn
                              ELSE st.my_turn,
             move_history |-> Append(st.move_history, player_move),
             asked        |-> Append(st.asked, who),
             brk          |-> IF r.ret THEN "" ELSE "Err"]
        Ask(seen) ==
            { Moved(make_move_fast(seen.game, player_move), player_move) :
              player_move \in Agent_make_move(agents, seen.ret) }
    IN  IF ~is_terminal(st.game)
        THEN Ask(get_moves(st.game))
        ELSE { [st EXCEPT !.brk = "Ok"] }

\* One iteration of the loop of rollout from the loop's state st = [game,
\* my_turn, move_history, asked, brk], over every move the agent asked may
\* return (it reads the legal moves with get_moves(), which fills the
\* cache of the rollout's game). brk is "" while the loop runs, "Ok" and
\* "Err" once it has broken with Ok or with Err; asked records the agent
\* asked at each ply. Returns the set of states the iteration can end in.
rollout_iteration(st, agents) ==
    LET who == IF st.my_turn THEN "rollout" ELSE "opponent"
        Moved(r, player_move) ==
            [game         |-> r.game,
             my_turn      |-> IF r.ret THEN ~st.my_turn ELSE st.my_turn,
             move_history |-> Append(st.move_history, player_move),
             asked        |-> Append(st.asked, who),
             brk          |-> IF r.ret THEN "" ELSE "Err"]
        Ask(seen) ==
            { Moved(make_move_fast(seen.game, player_move), player_move) :
              player_move \in Agent_make_move(agents, seen.ret) }
    IN  IF ~is_terminal(st.game)
        THEN Ask(get_moves(st.game))
        ELSE { [st EXCEPT !.brk = "Ok"] }

\* One more iteration of every run that has not broken.
rollout_iterations(sts, agents) ==
    UNION { IF st.brk # "" THEN {st} ELSE rollout_iteration(st, agents) : st \in sts }

\* The loop of rollout: iterations until every run has broken. Returns
\* the set of states the loop can break in. (Each step of the recursion
\* makes six iterations, which keeps the evaluation shallow; a run that
\* has broken is left as it is.)
RECURSIVE rollout_loop(_, _)
rollout_loop(sts, agents) ==
    IF \A st \in sts : st.brk # ""
    THEN sts
    ELSE rollout_loop(
             rollout_iterations(rollout_iterations(rollout_iterations(
             rollout_iterations(rollout_iterations(rollout_iterations(
                 sts, agents), agents), agents), agents), agents), agents),
             agents)

\* The match on (my_color, score.cmp(0)) that ends a rollout.
rollout_win(my_color, s) ==
    \/ my_color = "Black" /\ s > 0
    \/ my_color = "White" /\ s < 0

\* Returns [tree, runs]: whose_turn() fills the cache of the root's game,
\* and runs is the set of [ret, win, history, asked] the call can end with.
rollout(t, path, my_turn, agents) ==
    LET Loop(game, w) ==
            [tree |-> [t EXCEPT ![<<>>].game = w.game],
             runs |-> IF w.ret = "Empty"
                      THEN { [ret |-> "Panic", win |-> FALSE,
                              history |-> <<>>, asked |-> <<>>] }
                      ELSE { [ret     |-> IF run.brk = "Ok"
                                          THEN "Ok"
                                          ELSE "Rollout::IllegalMove",
                              win     |-> run.brk = "Ok"
                                          /\ rollout_win(w.ret, score(run.game)),
                              history |-> run.move_history,
                              asked   |-> run.asked] :
                             run \in rollout_loop({ [game         |-> game,
                                                     my_turn      |-> my_turn,
                                                     move_history |-> <<>>,
                                                     asked        |-> <<>>,
                                                     brk          |-> ""] },
                                                  agents) }]
    IN  Loop(clone(t[path].game), whose_turn(t[<<>>].game))

\* Back-propagation updating the proper prefixes of the path only.
backprop_exclusive(t, path, win) ==
    [p \in DOMAIN t |->
        IF HasPrefix(path, p) /\ p # path THEN update(t[p], win) ELSE t[p]]

\* The loop "for index in 0..=path.len()" of cycle: one update on the node
\* of every prefix of the path, the path itself included.
backprop(t, path, win) ==
    [p \in DOMAIN t |-> IF HasPrefix(path, p) THEN update(t[p], win) ELSE t[p]]

\* McstAgent::cycle, s and link being what the selection policy and the
\* expansion policy return: the set of outcomes over the rollouts.
cycle(t, s, link, agents) ==
    LET Propagate(path, r) ==
            { IF run.ret = "Ok"
              THEN Outcome(backprop(r.tree, path, run.win), "OkTrue",
                           path, run.win, run.history, run.asked)
              ELSE Outcome(r.tree, run.ret, <<>>, FALSE, run.history, run.asked) :
              run \in r.runs }
        Roll(t1, path) == Propagate(path, rollout(t1, path, Len(path) % 2 = 0, agents))
        Expand(term, e) ==
            IF ~term /\ e.ret # "Ok"
            THEN { Outcome(e.tree, e.ret, <<>>, FALSE, <<>>, <<>>) }
            ELSE Roll(IF term THEN t ELSE add_child(e.tree, s.val, link).tree,
                      IF term THEN s.val ELSE Append(s.val, link))
        Selected(sel) ==
            IF sel = "NotANode"
            THEN { Outcome(t, "Selection::NotANode", <<>>, FALSE, <<>>, <<>>) }
            ELSE IF sel = "None"
            THEN { Outcome(t, "OkFalse", <<>>, FALSE, <<>>, <<>>) }
            ELSE Expand(is_terminal(t[s.val].game), expand(t, s.val, link))
    IN  Selected(select(t, s))

\* McstAgent::decide, decision being what the decision policy returned.
\* Returns [tree, ret]: valid_move() fills the cache of the root's game.
decide(t, decision) ==
    LET Checked(v) ==
            [tree |-> [t EXCEPT ![<<>>].game = v.game],
             ret  |-> [some |-> v.ret, val |-> IF v.ret THEN decision ELSE Pass]]
    IN  Checked(valid_move(t[<<>>].game, decision))

\* Re-rooting at the child for the first move instead of the grandchild.
Subtree_of_child(t, pre) ==
    [q \in {SubSeq(p, 2, Len(p)) : p \in {r \in DOMAIN t : HasPrefix(r, <<pre[1]>>)}}
        |-> t[<<pre[1]>> \o q]]

\* The subtree below the node at path pre, with that node as the root.
Subtree(t, pre) ==
    [q \in {SubSeq(p, Len(pre) + 1, Len(p)) : p \in {r \in DOMAIN t : HasPrefix(r, pre)}}
        |-> t[pre \o q]]

\* next_two_moves attaching the child for mv1 before the two moves are
\* tested.
next_two_moves_attach_first(t, mv1, mv2) ==
    LET Second(t1) ==
            IF mv2 \in children(t1, <<mv1>>)
            THEN t1
            ELSE add_child(t1, <<mv1>>, mv2).tree
        First ==
            IF mv1 \in children(t, <<>>)
            THEN t
            ELSE add_child(t, <<>>, mv1).tree
        Tested(test_game) ==
            IF ~test_game.ret
            THEN [tree |-> First, ret |-> FALSE, notified |-> FALSE]
            ELSE [tree     |-> Subtree(Second(First), <<mv1, mv2>>),
                  ret      |-> TRUE,
                  notified |-> TRUE]
    IN  Tested(make_moves_fast(clone(t[<<>>].game), <<mv1, mv2>>))

\* Returns [tree, ret, notified], notified telling whether the selection
\* policy's turns_passed was called.
next_two_moves(t, mv1, mv2) ==
    LET Second(t1) ==
            IF mv2 \in children(t1, <<mv1>>)
            THEN t1
            ELSE add_child(t1, <<mv1>>, mv2).tree
        First ==
            IF mv1 \in children(t, <<>>)
            THEN t
            ELSE add_child(t, <<>>, mv1).tree
        Tested(test_game) ==
            IF ~test_game.ret
            THEN [tree |-> t, ret |-> FALSE, notified |-> FALSE]
            ELSE [tree     |-> Subtree(Second(First), <<mv1, mv2>>),
                  ret      |-> TRUE,
                  notified |-> TRUE]
    IN  Tested(make_moves_fast(clone(t[<<>>].game), <<mv1, mv2>>))

\* ------------------------------------------------ agent/implementations.rs
\* Ord::cmp on two integers.
cmp(a, b) == IF a < b THEN "Less" ELSE IF a = b THEN "Equal" ELSE "Greater"

\* The closure UctDecision::decide passes to max_by.
UctDecision_cmp(node1, node2) == cmp(node1.total, node2.total)

\* The closure of WinAverageDecision without the arms for a total of 0:
\* 0/0 is NaN, which total_cmp places above every number.
WinAverageDecision_cmp_nan(node1, node2) ==
    IF node1.total = 0 /\ node2.total = 0
    THEN "Equal"
    ELSE IF node1.total = 0
    THEN "Greater"
    ELSE IF node2.total = 0
    THEN "Less"
    ELSE cmp(node1.wins * node2.total, node2.wins * node1.total)

\* The closure WinAverageDecision::decide passes to max_by. The two
\* quotients of u32 values are compared as f64 by total_cmp; for totals
\* this small the order of the quotients is the order of the cross
\* products.
WinAverageDecision_cmp(node1, node2) ==
    IF node1.total = 0 /\ node2.total = 0
    THEN "Equal"
    ELSE IF node1.total = 0
    THEN "Less"
    ELSE IF node2.total = 0
    THEN "Greater"
    ELSE cmp(node1.wins * node2.total, node2.wins * node1.total)

DecisionPolicies == {"UctDecision", "WinAverageDecision"}

compare(policy, node1, node2) ==
    IF policy = "UctDecision"
    THEN UctDecision_cmp(node1, node2)
    ELSE WinAverageDecision_cmp(node1, node2)

\* Iterator::max_by over the keys in the order keys, from the i-th on,
\* best being the maximum so far: a later key replaces it unless the
\* closure says the maximum so far is Greater.
RECURSIVE max_by(_, _, _, _, _)
max_by(t, policy, keys, i, best) ==
    IF i > Len(keys)
    THEN best
    ELSE max_by(t, policy, keys, i + 1,
                IF compare(policy, t[<<best>>], t[<<keys[i]>>]) = "Greater"
                THEN best
                ELSE keys[i])

\* The orders in which a HashMap may iterate over the keys ks.
IterationOrders(ks) ==
    {o \in [1..Cardinality(ks) -> ks] : \A i, j \in DOMAIN o : o[i] = o[j] => i = j}

\* DecisionPolicy::decide of UctDecision and of WinAverageDecision: the
\* turns the call may return; none if the root has no children (expect
\* panics).
policy_decide(policy, t) ==
    {max_by(t, policy, keys, 2, keys[1]) :
        keys \in {o \in IterationOrders(children(t, <<>>)) : Len(o) >= 1}}

\* The f64 values the closures of UctSelection compare. A finite score is
\* kept in units of 1/ScoreScale; +inf and NaN are kept as such. The sign
\* of a NaN that a division or a square root produces is not fixed by the
\* language, so it is an input: nan is "-NaN" or "+NaN".
ScoreScale == 1000000

NaNSigns == {"-NaN", "+NaN"}

Finite(v) == [class |-> "finite", val |-> v]

PosInf == [class |-> "+inf", val |-> 0]

NaN(nan) == [class |-> nan, val |-> 0]

\* c * (total.ln() / w).sqrt() for c = 2_f64.sqrt(), total and w in 1..6,
\* rounded to units of 1/ScoreScale: explore[total][w]. At this precision
\* the order of the sums below is the order of the f64 sums.
explore ==
    << <<0, 0, 0, 0, 0, 0>>,
       <<1177410, 832555, 679778, 588705, 526554, 480676>>,
       <<1482304, 1048147, 855809, 741152, 662906, 605148>>,
       <<1665109, 1177410, 961351, 832555, 744659, 679778>>,
       <<1794123, 1268636, 1035837, 897061, 802356, 732447>>,
       <<1893018, 1338566, 1092935, 946509, 846584, 772822>> >>

\* f64::total_cmp on these values: -NaN below every number, +inf above
\* every finite number, +NaN above +inf.
total_cmp(a, b) ==
    LET rank(s) == IF s.class = "-NaN" THEN 0
                   ELSE IF s.class = "finite" THEN 1
                   ELSE IF s.class = "+inf" THEN 2
                   ELSE 3
    IN  IF rank(a) # rank(b)
        THEN cmp(rank(a), rank(b))
        ELSE IF a.class = "finite" THEN cmp(a.val, b.val) ELSE "Equal"

\* One side of the comparison in select_mine (negate false) and
\* select_your (negate true): w / t + c * (total.ln() / w).sqrt(), or the
\* same with -w / t, for a node with w wins in t visits.
\*   t = 0             : w is 0 too and 0/0 is NaN
\*   total = 0         : ln is -inf, and sqrt(-inf / w) is NaN
\*   w = 0, total = 1  : ln is 0 and 0/0 is NaN
\*   w = 0, total >= 2 : ln / 0 is +inf
uct_score(negate, w, t, total, nan) ==
    IF t = 0 \/ total = 0 \/ (w = 0 /\ total = 1)
    THEN NaN(nan)
    ELSE IF w = 0
    THEN PosInf
    ELSE Finite((IF negate THEN -1 ELSE 1) * ((w * ScoreScale) \div t)
                + explore[total][w])

\* The closure select_mine / select_your passes to max_by.
UctSelection_cmp(negate, nan, total, n1, n2) ==
    total_cmp(uct_score(negate, n1.wins, n1.total, total, nan),
              uct_score(negate, n2.wins, n2.total, total, nan))

\* Iterator::max_by over the children of the node at path, in the order
\* keys.
RECURSIVE uct_max_by(_, _, _, _, _, _, _, _)
uct_max_by(t, negate, nan, total, path, keys, i, best) ==
    IF i > Len(keys)
    THEN best
    ELSE uct_max_by(t, negate, nan, total, path, keys, i + 1,
                    IF UctSelection_cmp(negate, nan, total,
                                        t[Append(path, best)],
                                        t[Append(path, keys[i])]) = "Greater"
                    THEN best
                    ELSE keys[i])

\* The children max_by may return for the node at path: one for every
\* order in which the HashMap may iterate.
new_child(t, negate, nan, total, path) ==
    {uct_max_by(t, negate, nan, total, path, keys, 2, keys[1]) :
        keys \in {o \in IterationOrders(children(t, path)) : Len(o) >= 1}}

RECURSIVE select_mine(_, _, _, _)
RECURSIVE select_your(_, _, _, _)
\* select_mine that descends as long as the node has a child.
select_mine_while_children(t, nan, path, total) ==
    IF Cardinality(children(t, path)) = 0
    THEN {path}
    ELSE UNION { select_your(t, nan, Append(path, c), t[Append(path, c)].total) :
                 c \in new_child(t, FALSE, nan, total, path) }

\* UctSelection::select_mine on the node at path: the paths the call may
\* leave in its argument path.
select_mine(t, nan, path, total) ==
    IF \/ Cardinality(children(t, path)) < Len(get_moves(t[path].game).ret)
       \/ Cardinality(children(t, path)) = 0
    THEN {path}
    ELSE UNION { select_your(t, nan, Append(path, c), t[Append(path, c)].total) :
                 c \in new_child(t, FALSE, nan, total, path) }

\* UctSelection::select_your.
select_your(t, nan, path, total) ==
    IF \/ Cardinality(children(t, path)) < Len(get_moves(t[path].game).ret)
       \/ Cardinality(children(t, path)) = 0
    THEN {path}
    ELSE UNION { select_mine(t, nan, Append(path, c), t[Append(path, c)].total) :
                 c \in new_child(t, TRUE, nan, total, path) }

\* UctSelection::select: the paths it may return; the first comparison is
\* made with the number of legal moves of the root as total.
UctSelection_select(t) ==
    UNION { select_mine(t, nan, <<>>, Len(get_moves(t[<<>>].game).ret)) :
            nan \in NaNSigns }

\* get_moves() fills the cache of the game of every node a selection
\* looked at: here the nodes on the way to path.
looked_at(t, path) ==
    [p \in DOMAIN t |->
        IF HasPrefix(path, p)
        THEN [t[p] EXCEPT !.game = get_moves(t[p].game).game]
        ELSE t[p]]

\* BfsSelectionFast::new: the queue holds the path of the root.
BfsSelectionFast_new == << <<>> >>

\* select that does not put the path it returns back at the front.
RECURSIVE BfsSelectionFast_select_pops(_, _)
BfsSelectionFast_select_pops(t, queue) ==
    LET Popped(path, rest, current_moves) ==
            IF current_moves.ret # <<>>
            THEN IF Len(current_moves.ret) - Cardinality(children(t, path)) = 0
                 THEN BfsSelectionFast_select_pops(
                          [t EXCEPT ![path].game = current_moves.game],
                          rest \o [i \in 1..Len(current_moves.ret) |->
                                      Append(path, current_moves.ret[i])])
                 ELSE [tree  |-> [t EXCEPT ![path].game = current_moves.game],
                       queue |-> rest,
                       ret   |-> Some(path),
                       panic |-> FALSE]
            ELSE BfsSelectionFast_select_pops(
                     [t EXCEPT ![path].game = current_moves.game], rest)
    IN  IF queue = <<>>
        THEN [tree |-> t, queue |-> queue, ret |-> None, panic |-> FALSE]
        ELSE IF ~search(t, Head(queue))
        THEN [tree |-> t, queue |-> Tail(queue), ret |-> None, panic |-> TRUE]
        ELSE Popped(Head(queue), Tail(queue), get_moves(t[Head(queue)].game))

\* select that does not queue the child for the last legal move.
RECURSIVE BfsSelectionFast_select_skips_last(_, _)
BfsSelectionFast_select_skips_last(t, queue) ==
    LET Popped(path, rest, current_moves) ==
            IF current_moves.ret # <<>>
            THEN IF Len(current_moves.ret) - Cardinality(children(t, path)) = 0
                 THEN BfsSelectionFast_select_skips_last(
                          [t EXCEPT ![path].game = current_moves.game],
                          rest \o [i \in 1..(Len(current_moves.ret) - 1) |->
                                      Append(path, current_moves.ret[i])])
                 ELSE [tree  |-> [t EXCEPT ![path].game = current_moves.game],
                       queue |-> <<path>> \o rest,
                       ret   |-> Some(path),
                       panic |-> FALSE]
            ELSE BfsSelectionFast_select_skips_last(
                     [t EXCEPT ![path].game = current_moves.game], rest)
    IN  IF queue = <<>>
        THEN [tree |-> t, queue |-> queue, ret |-> None, panic |-> FALSE]
        ELSE IF ~search(t, Head(queue))
        THEN [tree |-> t, queue |-> Tail(queue), ret |-> None, panic |-> TRUE]
        ELSE Popped(Head(queue), Tail(queue), get_moves(t[Head(queue)].game))

\* select that queues the children at the front: depth first.
RECURSIVE BfsSelectionFast_select_depth_first(_, _)
BfsSelectionFast_select_depth_first(t, queue) ==
    LET Popped(path, rest, current_moves) ==
            IF current_moves.ret # <<>>
            THEN IF Len(current_moves.ret) - Cardinality(children(t, path)) = 0
                 THEN BfsSelectionFast_select_depth_first(
                          [t EXCEPT ![path].game = current_moves.game],
                          [i \in 1..Len(current_moves.ret) |->
                              Append(path, current_moves.ret[i])] \o rest)
                 ELSE [tree  |-> [t EXCEPT ![path].game = current_moves.game],
                       queue |-> <<path>> \o rest,
                       ret   |-> Some(path),
                       panic |-> FALSE]
            ELSE BfsSelectionFast_select_depth_first(
                     [t EXCEPT ![path].game = current_moves.game], rest)
    IN  IF queue = <<>>
        THEN [tree |-> t, queue |-> queue, ret |-> None, panic |-> FALSE]
        ELSE IF ~search(t, Head(queue))
        THEN [tree |-> t, queue |-> Tail(queue), ret |-> None, panic |-> TRUE]
        ELSE Popped(Head(queue), Tail(queue), get_moves(t[Head(queue)].game))

\* BfsSelectionFast::select on the tree t with the queue as it stands.
\* Returns [tree, queue, ret, panic]: get_moves() fills the cache of the
\* game of every node popped, and unwrap() panics on a path that leads to
\* no node. (move_ct - children.len() is 0 exactly when the two are equal.)
RECURSIVE BfsSelectionFast_select(_, _)
BfsSelectionFast_select(t, queue) ==
    LET Popped(path, rest, current_moves) ==
            IF current_moves.ret # <<>>
            THEN IF Len(current_moves.ret) - Cardinality(children(t, path)) = 0
                 THEN BfsSelectionFast_select(
                          [t EXCEPT ![path].game = current_moves.game],
                          rest \o [i \in 1..Len(current_moves.ret) |->
                                      Append(path, current_moves.ret[i])])
                 ELSE [tree  |-> [t EXCEPT ![path].game = current_moves.game],
                       queue |-> <<path>> \o rest,
                       ret   |-> Some(path),
                       panic |-> FALSE]
            ELSE BfsSelectionFast_select(
                     [t EXCEPT ![path].game = current_moves.game], rest)
    IN  IF queue = <<>>
        THEN [tree |-> t, queue |-> queue, ret |-> None, panic |-> FALSE]
        ELSE IF ~search(t, Head(queue))
        THEN [tree |-> t, queue |-> Tail(queue), ret |-> None, panic |-> TRUE]
        ELSE Popped(Head(queue), Tail(queue), get_moves(t[Head(queue)].game))

\* turns_passed leaving the queue as it is.
BfsSelectionFast_turns_passed_keeps(queue) == queue

\* BfsSelectionFast::turns_passed.
\* turns_passed without its clear().
BfsSelectionFast_turns_passed_only_pushes(queue) == Append(queue, <<>>)

BfsSelectionFast_turns_passed(queue) == << <<>> >>

\* BfsExpansion::expand: the first legal move of the node at path that is
\* not a child. Returns [panic, val].
BfsExpansion_expand(t, path) ==
    LET First(unexpanded) ==
            IF unexpanded = <<>>
            THEN [panic |-> TRUE, val |-> Pass]
            ELSE [panic |-> FALSE, val |-> unexpanded[1]]
    IN  IF ~search(t, path)
        THEN [panic |-> TRUE, val |-> Pass]
        ELSE First(SelectSeq(get_moves(t[path].game).ret,
                             LAMBDA next_turn : next_turn \notin children(t, path)))

\* ---------------------------------------------------------------- agent.rs
\* (with the MemoryAgent implementations of agent/implementations.rs)
\* A value that is used more than once is bound by letting a variable range
\* over the set that holds just that value.
\* The implementations of the trait MemoryAgent that are driven:
\*   "MemoryAgent"  any implementation, its answers being inputs;
\*   the two agents that keep an McstAgent.
MemoryAgents == {"MemoryAgent", "BfsMemoryAgent", "UctMemoryAgent"}

\* Two games an implementation may play from the opening: one that ends
\* after nine moves with no White stone left, and one in which Black has
\* to pass at the ninth move.
WipeOut ==
    << <<5, 4>>, <<3, 5>>, <<2, 4>>, <<5, 3>>, <<4, 2>>,
       <<5, 5>>, <<6, 4>>, <<4, 5>>, <<4, 6>> >>

EarlyPass ==
    << <<2, 3>>, <<2, 2>>, <<4, 5>>, <<1, 3>>, <<0, 3>>,
       <<0, 4>>, <<1, 1>>, <<0, 2>>, Pass, <<2, 0>> >>

\* What "MemoryAgent" may answer when ply moves have been played and moves
\* are the legal ones: the first legal move, the next move of one of the
\* two games (legal or not), or a turn that is legal in no game.
ScriptedTurns(moves, ply) ==
    {moves[1], OffBoard}
        \cup {line[ply + 1] : line \in {l \in {WipeOut, EarlyPass} : ply < Len(l)}}

\* BfsMemoryAgent::new and UctMemoryAgent::new: the McstAgent's tree and
\* its selection policy's queue, last_move, and the draws of its
\* RandomAgents.
MemoryAgent_new(kind, rollouts) ==
    [kind      |-> kind,
     tree      |-> McstTree_new(Gamestate_new),
     queue     |-> BfsSelectionFast_new,
     last_move |-> Pass,
     agents    |-> rollouts]

\* MemoryAgent::initialize_game: a new McstAgent on state; last_move is
\* left as it is.
MemoryAgent_initialize_game(a, state) ==
    IF a.kind = "MemoryAgent"
    THEN a
    ELSE [a EXCEPT !.tree = McstTree_new(state), !.queue = BfsSelectionFast_new]

\* SelectionPolicy::select of the agent's policy: the [tree, queue, ret,
\* panic] it may return.
policy_select(a) ==
    IF a.kind = "BfsMemoryAgent"
    THEN { BfsSelectionFast_select(a.tree, a.queue) }
    ELSE { [tree |-> looked_at(a.tree, p), queue |-> a.queue,
            ret |-> Some(p), panic |-> FALSE] : p \in UctSelection_select(a.tree) }

\* McstAgent::cycle of the agent's McstAgent, whose expansion policy is
\* BfsExpansion: the [agent, ret] it may end with.
McstAgent_cycle(a) ==
    UNION { IF sel.panic \/ link.panic
            THEN { [agent |-> a, ret |-> "Panic"] }
            ELSE { [agent |-> [a EXCEPT !.tree = o.tree, !.queue = sel.queue],
                    ret   |-> o.ret] :
                   o \in cycle(sel.tree, sel.ret, link.val, a.agents) } :
            <<sel, link>> \in
                { <<s, IF ~s.panic /\ s.ret.some /\ ~is_terminal(s.tree[s.ret.val].game)
                       THEN BfsExpansion_expand(s.tree, s.ret.val)
                       ELSE [panic |-> FALSE, val |-> Pass]>> : s \in policy_select(a) } }

\* The loop of make_move, in which the clock lets n more cycles start: a
\* run is [agent, brk], brk being "" while it loops, "break" after Ok(false)
\* or once the clock has run out after an Ok(true), and "panic" after Err.
RECURSIVE make_move_loop(_, _)
make_move_loop(runs, n) ==
    IF n = 0
    THEN runs
    ELSE make_move_loop(
             UNION { IF run.brk # ""
                     THEN {run}
                     ELSE UNION { IF c.ret = "OkTrue"
                                  THEN { [agent |-> c.agent, brk |-> b] :
                                         b \in IF n > 1 THEN {"", "break"} ELSE {"break"} }
                                  ELSE { [agent |-> c.agent,
                                          brk   |-> IF c.ret = "OkFalse"
                                                    THEN "break"
                                                    ELSE "panic"] } :
                                  c \in McstAgent_cycle(run.agent) } :
                     run \in runs },
             n - 1)

\* MemoryAgent::make_move: the [agent, ret, panic] the call may end with.
\* The clock ends the loop after one to MaxThink cycles that returned
\* Ok(true); Ok(false) ends it at once; then decide(), and last_move is the
\* decision.
MemoryAgent_make_move(a, moves, ply) ==
    IF a.kind = "MemoryAgent"
    THEN { [agent |-> a, ret |-> m, panic |-> FALSE] : m \in ScriptedTurns(moves, ply) }
    ELSE UNION {
           IF run.brk = "panic" \/ decisions = {}
           THEN { [agent |-> run.agent, ret |-> Pass, panic |-> TRUE] }
           ELSE { [agent |-> [run.agent EXCEPT !.tree = d[2].tree,
                                               !.last_move = IF d[2].ret.some
                                                             THEN d[1]
                                                             ELSE run.agent.last_move],
                   ret   |-> d[1],
                   panic |-> ~d[2].ret.some] :
                  d \in { <<decision, decide(run.agent.tree, decision)>> :
                          decision \in decisions } } :
           <<run, decisions>> \in
               { <<r, policy_decide(IF a.kind = "BfsMemoryAgent"
                                    THEN "WinAverageDecision"
                                    ELSE "UctDecision", r.agent.tree)>> :
                 r \in make_move_loop({ [agent |-> a, brk |-> ""] }, MaxThink) } }

\* opponent_move passing the two moves to next_two_moves in the other
\* order.
MemoryAgent_opponent_move_swapped(a, op) ==
    IF a.kind = "MemoryAgent"
    THEN [agent |-> a, ret |-> TRUE]
    ELSE CHOOSE moved \in
             { [agent |-> [a EXCEPT !.tree = r.tree,
                                    !.queue = IF r.notified /\ a.kind = "BfsMemoryAgent"
                                              THEN BfsSelectionFast_turns_passed(a.queue)
                                              ELSE a.queue],
                ret   |-> r.ret] : r \in { next_two_moves(a.tree, op, a.last_move) } } : TRUE

\* MemoryAgent::opponent_move: [agent, ret], ret being what next_two_moves
\* returned (the call drops it).
MemoryAgent_opponent_move(a, op) ==
    IF a.kind = "MemoryAgent"
    THEN [agent |-> a, ret |-> TRUE]
    ELSE CHOOSE moved \in
             { [agent |-> [a EXCEPT !.tree = r.tree,
                                    !.queue = IF r.notified /\ a.kind = "BfsMemoryAgent"
                                              THEN BfsSelectionFast_turns_passed(a.queue)
                                              ELSE a.queue],
                ret   |-> r.ret] : r \in { next_two_moves(a.tree, a.last_move, op) } } : TRUE

\* A call the driver makes on agent i (1 for agent1, 2 for agent2): turn is
\* the move returned or passed, side whose turn it is in the driver's game
\* when the call is made.
Logged(i, op, turn, side) == [agent |-> i, op |-> op, turn |-> turn, side |-> side]

\* What the driver's game and the agent asked for a move looked like when
\* make_move was called on agent i.
Asked(i, a, g) ==
    [agent |-> i, kind |-> a.kind,
     root_board |-> a.tree[<<>>].game.board, root_turn |-> a.tree[<<>>].game.turn,
     game_board |-> g.board, game_turn |-> g.turn]

\* The match after a move of play_memory_agents telling no agent of a
\* pass.
tell_opponent_unless_pass(g, mems, calls, player_move) ==
    CHOOSE told \in
        { IF w.ret = "Empty" \/ player_move = Pass
          THEN [game |-> w.game, mem |-> mems, calls |-> calls, told |-> None]
          ELSE CHOOSE t \in
                   { [game  |-> w.game,
                      mem   |-> [mems EXCEPT ![i] = r.agent],
                      calls |-> Append(calls,
                                       Logged(i, "opponent_move", player_move, w.ret)),
                      told  |-> Some(<<i, r.ret>>)] :
                     <<i, r>> \in
                         { <<j, MemoryAgent_opponent_move(mems[j], player_move)>> :
                           j \in {IF w.ret = "Black" THEN 1 ELSE 2} } } : TRUE :
          w \in { whose_turn(g) } } : TRUE

\* The match after a move of play_memory_agents: opponent_move(player_move)
\* on the agent whose turn it is now, on none when the game is over.
tell_opponent(g, mems, calls, player_move) ==
    CHOOSE told \in
        { IF w.ret = "Empty"
          THEN [game |-> w.game, mem |-> mems, calls |-> calls, told |-> None]
          ELSE CHOOSE t \in
                   { [game  |-> w.game,
                      mem   |-> [mems EXCEPT ![i] = r.agent],
                      calls |-> Append(calls,
                                       Logged(i, "opponent_move", player_move, w.ret)),
                      told  |-> Some(<<i, r.ret>>)] :
                     <<i, r>> \in
                         { <<j, MemoryAgent_opponent_move(mems[j], player_move)>> :
                           j \in {IF w.ret = "Black" THEN 1 ELSE 2} } } : TRUE :
          w \in { whose_turn(g) } } : TRUE

\* play_memory_agents up to its loop: [play, mem] for each way it can go.
play_memory_agents_first(p, mems) ==
    { IF r.panic \/ ~mv.ret
      THEN [play |-> [p EXCEPT !.pc = "panic",
                               !.game = mv.game,
                               !.history = IF r.panic THEN <<>> ELSE <<r.ret>>,
                               !.calls = << Logged(1, "initialize_game", Pass, "Black"),
                                            Logged(1, "make_move", r.ret, "Black") >>,
                               !.asked = Some(Asked(1, agent1, p.game))],
            mem  |-> [mems EXCEPT ![1] = r.agent]]
      ELSE [play |-> [p EXCEPT !.pc = "loop",
                               !.game = mv.game,
                               !.history = <<r.ret>>,
                               !.applied = <<r.ret>>,
                               !.calls = << Logged(1, "initialize_game", Pass, "Black"),
                                            Logged(1, "make_move", r.ret, "Black"),
                                            Logged(2, "initialize_game", Pass,
                                                   whose_turn(mv.game).ret) >>,
                               !.asked = Some(Asked(1, agent1, p.game))],
            mem  |-> [mems EXCEPT ![1] = r.agent,
                                  ![2] = MemoryAgent_initialize_game(mems[2],
                                                                     clone(mv.game))]] :
      <<agent1, r, mv>> \in
          { <<a1, rr, IF rr.panic THEN [game |-> p.game, ret |-> FALSE]
                      ELSE make_move_fast(p.game, rr.ret)>> :
            <<a1, rr>> \in
                UNION { { <<a, x>> : x \in MemoryAgent_make_move(
                                               a, get_moves(p.game).ret, 0) } :
                        a \in { MemoryAgent_initialize_game(mems[1], clone(p.game)) } } } }

\* One iteration of the loop of play_memory_agents.
play_memory_agents_iteration(p, mems) ==
    UNION {
      IF valid_moves.ret = <<>>
      THEN { [play |-> [p EXCEPT !.pc = "returned",
                                 !.game = valid_moves.game,
                                 !.score = score(valid_moves.game)],
              mem  |-> mems] }
      ELSE { IF r.panic \/ ~mv.ret
             THEN [play |-> [p EXCEPT !.pc = "panic",
                                      !.game = mv.game,
                                      !.calls = Append(p.calls,
                                                       Logged(i, "make_move", r.ret, side)),
                                      !.asked = Some(Asked(i, mems[i], p.game)),
                                      !.told = None],
                   mem  |-> [mems EXCEPT ![i] = r.agent]]
             ELSE CHOOSE next \in
                      { [play |-> [p EXCEPT !.game = t.game,
                                            !.applied = Append(p.applied, r.ret),
                                            !.calls = t.calls,
                                            !.asked = Some(Asked(i, mems[i], p.game)),
                                            !.told = t.told],
                         mem  |-> t.mem] :
                        t \in { tell_opponent(
                                    mv.game, [mems EXCEPT ![i] = r.agent],
                                    Append(p.calls, Logged(i, "make_move", r.ret, side)),
                                    r.ret) } } : TRUE :
             <<i, side, r, mv>> \in
                 { <<j[1], j[2], rr, IF rr.panic THEN [game |-> valid_moves.game, ret |-> FALSE]
                                     ELSE make_move_fast(valid_moves.game, rr.ret)>> :
                   <<j, rr>> \in
                       UNION { { <<k, x>> : x \in MemoryAgent_make_move(
                                                      mems[k[1]], valid_moves.ret,
                                                      Len(p.applied)) } :
                               k \in { IF whose_turn(valid_moves.game).ret = "Black"
                                       THEN <<1, "Black">>
                                       ELSE <<2, "White">> } } } } :
      valid_moves \in { get_moves(p.game) } }

\* ------------------------------------------------------------------ data.rs
\* A string is the sequence of its characters.
Digits == <<"0", "1", "2", "3", "4", "5", "6", "7", "8", "9">>

DigitValue(c) == CHOOSE d \in 0..9 : Digits[d + 1] = c

\* str::split: the fields between the occurrences of sep, at least one.
RECURSIVE split(_, _)
split(s, sep) ==
    IF \A i \in DOMAIN s : s[i] # sep
    THEN << s >>
    ELSE LET i == CHOOSE k \in DOMAIN s :
                      s[k] = sep /\ \A j \in 1..(k - 1) : s[j] # sep
         IN  << SubSeq(s, 1, i - 1) >> \o split(SubSeq(s, i + 1, Len(s)), sep)

\* str::replace(c, ""): s without its occurrences of c.
remove(s, c) == SelectSeq(s, LAMBDA d : d # c)

\* The number a sequence of decimal digits denotes.
RECURSIVE DecimalValue(_)
DecimalValue(s) ==
    IF s = <<>>
    THEN 0
    ELSE DecimalValue(SubSeq(s, 1, Len(s) - 1)) * 10 + DigitValue(s[Len(s)])

\* str::parse::<u8>: an optional "+", then one or more decimal digits that
\* denote a number below 2^8; anything else is an Err.
parse_u8(s) ==
    LET digits == IF s # <<>> /\ s[1] = "+" THEN Tail(s) ELSE s
    IN  IF /\ digits # <<>>
           /\ \A i \in DOMAIN digits : digits[i] \in Range(Digits)
           /\ DecimalValue(digits) < U8
        THEN Some(DecimalValue(digits))
        ELSE None

\* u8's Display, as format!("{x}") uses it.
RECURSIVE to_string(_)
to_string(n) ==
    IF n < 10
    THEN << Digits[n + 1] >>
    ELSE to_string(n \div 10) \o << Digits[(n % 10) + 1] >>

\* [String]::join(sep).
RECURSIVE join(_, _)
join(strs, sep) ==
    IF strs = <<>>
    THEN <<>>
    ELSE IF Len(strs) = 1
         THEN strs[1]
         ELSE strs[1] \o << sep >> \o join(Tail(strs), sep)

\* gameplay.rs, str_to_loc: the spaces are removed, the first two fields
\* between commas are parsed, further fields are not looked at.
str_to_loc(s) ==
    LET fields == split(remove(s, " "), ",")
        x == parse_u8(fields[1])
        y == parse_u8(fields[2])
    IN  IF Len(fields) < 2
        THEN None
        ELSE IF x.some /\ y.some
             THEN IF x.val < BoardSize /\ y.val < BoardSize
                  THEN Some(<< x.val, y.val >>)
                  ELSE None
             ELSE None
\* turns_to_str with the Passes left out of the rendering.
turns_to_str_without_passes(turns) ==
    LET moves == SelectSeq(turns, LAMBDA t : t # Pass)
    IN  IF moves = <<>>
        THEN <<>>
        ELSE join([i \in DOMAIN moves |->
                      to_string(moves[i][1]) \o << "," >> \o to_string(moves[i][2])],
                  ";")

turns_to_str(turns) ==
    IF turns = <<>>
    THEN <<>>
    ELSE join([i \in DOMAIN turns |->
                  IF turns[i] = Pass
                  THEN <<>>
                  ELSE to_string(turns[i][1]) \o << "," >> \o to_string(turns[i][2])],
              ";")

str_to_turns(string) ==
    LET trials == split(string, ";")
    IN  IF \E i \in DOMAIN trials :
               trials[i] # <<>> /\ ~str_to_loc(trials[i]).some
        THEN None
        ELSE Some([i \in DOMAIN trials |->
                      IF trials[i] = <<>> THEN Pass ELSE str_to_loc(trials[i]).val])

\* The characters of the strings given to str_to_turns: digits below and
\* above the board size, the two separators, a space and a sign.
Alphabet == {"0", "4", "9", ",", ";", " ", "+"}

\* The example of the documentation: "4,5;5,3;;3,2;2,3".
Example ==
    << "4", ",", "5", ";", "5", ",", "3", ";", ";", "3", ",", "2", ";", "2", ",", "3" >>

Texts == UNION {[1..k -> Alphabet] : k \in 0..MaxText} \cup {Example}

TurnLists == UNION {[1..k -> (Idx \X Idx) \cup {Pass}] : k \in 0..MaxListed}

\* ------------------------------------------------- data.rs, BfsAllGamestates
\* The iterator is [state, board, turns, flips, level, status, panic]; panic
\* names the unwrap, assert or panic! that ended a call, "" if none did.
BfsAllGamestates_new(root) ==
    [state |-> root, board |-> Board_new, turns |-> <<>>, flips |-> <<>>,
     level |-> 0, status |-> "Unbegun", panic |-> ""]

Panicked(it, why) == [it EXCEPT !.panic = why]

\* Iterator::position: the first index at which l holds e.
position(l, e) == CHOOSE i \in DOMAIN l : l[i] = e /\ \A j \in 1..(i - 1) : l[j] # e

RECURSIVE go_back(_)

RECURSIVE go_down_from_back(_, _)

RECURSIVE go_down_from_down(_)

\* turns.push(t), make_move(t).unwrap() with result mv, flips.push(f).
pushed(it, t, mv) ==
    IF ~mv.ret.some
    THEN Panicked(it, "unwrap")
    ELSE [it EXCEPT !.state = mv.game,
                    !.turns = Append(@, t),
                    !.flips = Append(@, mv.ret.val)]

\* The test of the level reached that ends both go_down functions.
descend(it) ==
    IF it.panic # ""
    THEN it
    ELSE IF Len(it.turns) = it.level
         THEN IF it.status \in {"InitLevel", "ScanLevel"}
              THEN [it EXCEPT !.status = "ScanLevel"]
              ELSE Panicked(it, "assert")
         ELSE go_down_from_down(it)

\* go_down_from_down after its get_moves returned gm.
go_down_from_down_with(it, gm) ==
    IF gm.ret = <<>>
    THEN go_back([it EXCEPT !.state = gm.game])
    ELSE descend(pushed([it EXCEPT !.state = gm.game], gm.ret[1],
                        make_move(gm.game, gm.ret[1])))

go_down_from_down(it) == go_down_from_down_with(it, get_moves(it.state))

\* go_down_from_back after its get_moves returned gm.
go_down_from_back_with(it, from, gm) ==
    IF gm.ret = <<>>
    THEN go_back([it EXCEPT !.state = gm.game])
    ELSE IF ~Contains(gm.ret, from)
         THEN Panicked(it, "unwrap")
         ELSE IF position(gm.ret, from) = Len(gm.ret)
              THEN go_back([it EXCEPT !.state = gm.game])
              ELSE descend(pushed([it EXCEPT !.state = gm.game],
                                  gm.ret[position(gm.ret, from) + 1],
                                  make_move(gm.game, gm.ret[position(gm.ret, from) + 1])))

go_down_from_back(it, from) == go_down_from_back_with(it, from, get_moves(it.state))

\* The loop of go_back over the flips of the turn it takes back.
RECURSIVE unflip(_, _, _, _)
unflip(b, flipped, i, flipped_color) ==
    IF i > Len(flipped)
    THEN b
    ELSE unflip(change(b, flipped[i][1], flipped[i][2], flipped_color),
                flipped, i + 1, flipped_color)

\* go_back giving the flipped stones to the side that flipped them.
unmade_to_the_mover(it, turn, turns) ==
    IF turn = Pass
    THEN unflip(it.state.board, it.flips[Len(it.flips)], 1,
                IF Len(turns) % 2 = 0 THEN "Black" ELSE "White")
    ELSE change(unflip(it.state.board, it.flips[Len(it.flips)], 1,
                       IF Len(turns) % 2 = 0 THEN "Black" ELSE "White"),
                turn[1], turn[2], "Empty")

\* The board of go_back once turn is taken back, turns being the turns
\* that are left.
unmade(it, turn, turns) ==
    IF turn = Pass
    THEN unflip(it.state.board, it.flips[Len(it.flips)], 1,
                IF Len(turns) % 2 = 0 THEN "White" ELSE "Black")
    ELSE change(unflip(it.state.board, it.flips[Len(it.flips)], 1,
                       IF Len(turns) % 2 = 0 THEN "White" ELSE "Black"),
                turn[1], turn[2], "Empty")

\* go_back from the new state on: its assert, then go_down_from_back.
went_back(it, turn) ==
    IF ~Contains(get_moves(it.state).ret, turn)
    THEN Panicked(it, "assert")
    ELSE go_down_from_back([it EXCEPT !.state = get_moves(it.state).game], turn)

go_back(it) ==
    IF it.turns # <<>>
    THEN IF it.flips = <<>>
         THEN Panicked(it, "unwrap")
         ELSE IF Len(it.turns) - 1 >= U8
              THEN Panicked(it, "try_from")
              ELSE went_back(
                       [it EXCEPT
                          !.turns = SubSeq(@, 1, Len(@) - 1),
                          !.flips = SubSeq(@, 1, Len(@) - 1),
                          !.board = unmade(it, it.turns[Len(it.turns)],
                                           SubSeq(it.turns, 1, Len(it.turns) - 1)),
                          !.state = Gamestate_new_from(
                                        unmade(it, it.turns[Len(it.turns)],
                                               SubSeq(it.turns, 1, Len(it.turns) - 1)),
                                        Len(it.turns) - 1)],
                       it.turns[Len(it.turns)])
    ELSE IF it.status = "InitLevel"
         THEN [it EXCEPT !.status = "Exhausted"]
         ELSE IF it.status = "ScanLevel"
              THEN go_down_from_down([it EXCEPT !.level = @ + 1, !.status = "InitLevel"])
              ELSE Panicked(it, "This method shouldn't have been called.")

\* What next() returns after its go_back left the iterator as it.
gone_back(it) ==
    IF it.panic # ""
    THEN [iter |-> it, ret |-> None]
    ELSE IF it.status = "Exhausted"
         THEN [iter |-> it, ret |-> None]
         ELSE [iter |-> it, ret |-> Some(clone(it.state))]

\* Iterator::next: [iter, ret], a panic being told by iter.panic.
BfsAllGamestates_next(it) ==
    IF it.status = "Unbegun"
    THEN [iter |-> [it EXCEPT !.status = "ScanLevel"], ret |-> Some(clone(it.state))]
    ELSE IF it.status = "InitLevel"
         THEN [iter |-> Panicked(it, "This state should not be possible to be in."),
               ret  |-> None]
         ELSE IF it.status = "ScanLevel"
              THEN gone_back(go_back(it))
              ELSE [iter |-> it, ret |-> None]

\* tests::test_bfsallgamestates: the children its loop pushes to the back
\* of q for the state expected, one for each of its moves, in their order.
pushed_back(expected) ==
    [i \in 1..Len(get_moves(expected).ret) |->
        make_move_fast(clone(get_moves(expected).game), get_moves(expected).ret[i]).game]

\* ----------------------------------------------------------- neural/data.rs
\* A u128 compact value below 3^64 is the sequence of its 64 base-3 digits,
\* the least significant first: compact % 3 is the first digit and
\* compact / 3 the sequence without it, a zero added at the far end.
Trits == 0..2

CellCount == BoardSize * BoardSize

rem3(compact) == compact[1]

div3(compact) == Tail(compact) \o <<0>>

\* The body of the loops over x and y for the n-th pair (x, y), and the
\* pairs after it: x counts the outer loop, y the inner one.
RECURSIVE compact_to_tensor_loop(_, _, _)
compact_to_tensor_loop(compact, n, v) ==
    IF n = CellCount
    THEN v
    ELSE compact_to_tensor_loop(
             div3(compact), n + 1,
             [i \in DOMAIN v |->
                 IF i = (8 * (n \div BoardSize)) + (n % BoardSize) + 2 THEN rem3(compact) = 2
                 ELSE IF i = (8 * (n \div BoardSize)) + (n % BoardSize) + 1 THEN rem3(compact) = 1
                 ELSE IF i = (8 * (n \div BoardSize)) + (n % BoardSize) + 0 THEN rem3(compact) = 0
                 ELSE v[i]])

\* The array v given to Tensor::from_data, indexed from 0.
compact_to_tensor(compact) ==
    compact_to_tensor_loop(compact, 0, [i \in 0..(CellCount * 3 - 1) |-> FALSE])

\* The cells whose digits vary, in the order in which a larger bound adds
\* them.
FreeOrder == <<0, 63, 1, 62, 8, 2>>

FreeCells == {FreeOrder[i] : i \in 1..(IF MaxFreeCells < Len(FreeOrder)
                                        THEN MaxFreeCells ELSE Len(FreeOrder))}

Compacts ==
    { [n \in 1..CellCount |-> IF (n - 1) \in FreeCells THEN f[n - 1] ELSE fill] :
      f \in [FreeCells -> Trits], fill \in Trits }

\* ------------------------------------------------------------------- state
VARIABLES
    game,    \* the Gamestate under test
    before,  \* the clone() of game taken just before the last call on it
    last,    \* the last call on game: [op, arg, ret]
    board,   \* the Board under test
    out,     \* the last call on board: [op, arg, ret]
    tree,    \* the McstTree of the McstAgent under test
    tlast,   \* the last call on the agent: [op, arg, ret, path, win, history,
             \* asked, notified]; path, win, history and asked are the final
             \* path of a cycle that returned Ok(true), its rollout's verdict,
             \* the moves the rollout played and the agent asked for each
    cycles,  \* how many calls of cycle() returned Ok(true)
    ended,   \* for each path, how many of those cycles had it as final path
    fresh,   \* no next_two_moves has replaced the root
    queue,   \* the queue of the agent's BfsSelectionFast
    agents,  \* the agent's rollout agent and opponent agent (Agent_make_move)
    play,    \* play_memory_agents: its position and its locals
    mem,     \* the two MemoryAgents play_memory_agents drives
    codec,   \* the last call of str_to_turns or turns_to_str: [op, ret], the
             \* string last given to str_to_turns (text) and the list last
             \* given to turns_to_str (turns)
    bag,     \* the BfsAllGamestates iterator under test
    got,     \* what its last next() returned: [op, ret, panic]
    want,    \* the VecDeque of the breadth-first traversal next() is
             \* compared with, and the state that traversal gave last
    tensor   \* compact_to_tensor: [op, compact, v], its argument and its array

gvars == <<game, before, last>>

bvars == <<board, out>>

tvars == <<tree, tlast, cycles, ended, fresh>>

svars == <<queue, agents>>

pvars == <<play, mem>>

cvars == <<codec>>

avars == <<bag, got, want>>

nvars == <<tensor>>

vars == <<game, before, last, board, out, tree, tlast, cycles, ended, fresh,
          queue, agents, play, mem, codec, bag, got, want, tensor>>

\* Cells a mock board may carry stones on, in the order in which a larger
\* bound adds them: the ends of row 0 first (where a walk could leave the
\* board on one side and come back on the other), then column 0.
MockCells ==
    << <<7, 0>>, <<0, 0>>, <<1, 0>>, <<6, 0>>, <<0, 7>>, <<0, 1>>, <<2, 0>>, <<0, 6>> >>

MockUsed == {MockCells[i] : i \in 1..MaxMockCells}

MockBoards ==
    { [y \in Idx |-> [x \in Idx |->
          IF <<x, y>> \in MockUsed THEN f[<<x, y>>] ELSE "Empty"]] :
      f \in [MockUsed -> {"Empty", "Black", "White"}] }

\* Turns tried besides the legal ones: pass, an occupied cell of the
\* opening, a cell off the board.
Probes == { Pass, <<3, 3>>, OffBoard }

TurnInputs(g) == Range(get_moves(g).ret) \cup Probes

Ret(ok, val) == [ok |-> ok, val |-> val]

Called(op, arg, ret) == [op |-> op, arg |-> arg, ret |-> ret]

GInit ==
    /\ game \in {Gamestate_new}
                \cup {Gamestate_new_from(b, t) : b \in MockBoards, t \in {0, 1}}
    /\ before = clone(game)
    /\ last = Called("new", Pass, Ret(TRUE, <<>>))

GetMoves ==
    LET Return(r) ==
            /\ before' = clone(game)
            /\ game' = r.game
            /\ last' = Called("get_moves", Pass, Ret(TRUE, r.ret))
            /\ UNCHANGED <<bvars, tvars, svars, pvars, cvars, avars, nvars>>
    IN  Return(get_moves(game))

WhoseTurn ==
    LET Return(r) ==
            /\ before' = clone(game)
            /\ game' = r.game
            /\ last' = Called("whose_turn", Pass, Ret(r.ret # "Empty", <<>>))
            /\ UNCHANGED <<bvars, tvars, svars, pvars, cvars, avars, nvars>>
    IN  Return(whose_turn(game))

MakeMove(m) ==
    LET Return(r) ==
            /\ r.game.turn <= MaxTurn
            /\ before' = clone(game)
            /\ game' = r.game
            /\ last' = Called("make_move", m, Ret(r.ret.some, r.ret.val))
            /\ UNCHANGED <<bvars, tvars, svars, pvars, cvars, avars, nvars>>
    IN  Return(make_move(game, m))

MakeMoveFast(m) ==
    LET Return(r) ==
            /\ r.game.turn <= MaxTurn
            /\ before' = clone(game)
            /\ game' = r.game
            /\ last' = Called("make_move_fast", m, Ret(r.ret, <<>>))
            /\ UNCHANGED <<bvars, tvars, svars, pvars, cvars, avars, nvars>>
    IN  Return(make_move_fast(game, m))

Next ==
    \/ GetMoves
    \/ WhoseTurn
    \/ \E m \in TurnInputs(game) : MakeMove(m)
    \/ \E m \in TurnInputs(game) : MakeMoveFast(m)

\* The Board calls: get_moves for a side, and a stone placed where that
\* side may move, followed by flip_all or flip_all_fast as in make_move.
Stones(b) == Cardinality({c \in Idx \X Idx : b[c[2]][c[1]] # "Empty"})

BInit ==
    /\ board \in {Gamestate_new.board} \cup MockBoards
    /\ out = Called("new", Pass, Ret(TRUE, <<>>))

BGetMoves(p) ==
    /\ out' = Called("get_moves", p, Ret(TRUE, Board_get_moves(board, p)))
    /\ UNCHANGED <<board, gvars, tvars, svars, pvars, cvars, avars, nvars>>

BFlipAll(m, p) ==
    LET Return(r) ==
            /\ Stones(board) < MaxStones
            /\ board' = r.board
            /\ out' = Called("flip_all", m, Ret(r.ret # <<>>, r.ret))
            /\ UNCHANGED <<gvars, tvars, svars, pvars, cvars, avars, nvars>>
    IN  Return(flip_all(change(board, m[1], m[2], p), m[1], m[2]))

BFlipAllFast(m, p) ==
    LET Return(r) ==
            /\ Stones(board) < MaxStones
            /\ board' = r.board
            /\ out' = Called("flip_all_fast", m, Ret(r.ret, <<>>))
            /\ UNCHANGED <<gvars, tvars, svars, pvars, cvars, avars, nvars>>
    IN  Return(flip_all_fast(change(board, m[1], m[2], p), m[1], m[2]))

NextBoard ==
    \/ \E p \in Players : BGetMoves(p)
    \/ \E p \in Players : \E m \in Range(Board_get_moves(board, p)) : BFlipAll(m, p)
    \/ \E p \in Players : \E m \in Range(Board_get_moves(board, p)) : BFlipAllFast(m, p)

\* The roots an agent is built on are positions near the end of a game, so
\* that the rollouts from every node can be enumerated: the upper half of
\* the board Black, the lower half White, and the first k cells of
\* EndCells empty.
EndCells == << <<7, 1>>, <<7, 0>>, <<1, 7>> >>

EndBoard(k) ==
    [y \in Idx |-> [x \in Idx |->
        IF \E i \in 1..k : EndCells[i] = <<x, y>>
        THEN "Empty"
        ELSE IF y < BoardSize \div 2 THEN "Black" ELSE "White"]]

RootGames == {Gamestate_new_from(EndBoard(k), t) : k \in {0, Len(EndCells)}, t \in {0, 1}}

\* What a selection policy may return: None, the path of a node, or a path
\* that leads to no node.
SelectorOutputs(t) == {None} \cup {Some(p) : p \in DOMAIN t} \cup {Some(<<OffBoard>>)}

\* What an expansion policy or a decision policy may return for a game: a
\* legal move, or a turn that is not legal.
PolicyTurns(g) == Range(get_moves(g).ret) \cup {OffBoard}

TCalled(op, arg, o, notified) ==
    [op |-> op, arg |-> arg, ret |-> o.ret, path |-> o.path, win |-> o.win,
     history |-> o.history, asked |-> o.asked,
     notified |-> notified]

\* McstAgent::new.
TInit ==
    /\ tree \in {McstTree_new(g) : g \in RootGames}
    /\ tlast = TCalled("new", <<>>, Outcome(tree, "Ok", <<>>, FALSE, <<>>, <<>>), FALSE)
    /\ cycles = 0
    /\ ended = [p \in DOMAIN tree |-> 0]
    /\ fresh = TRUE

Cycle(s, link) ==
    /\ cycles < MaxCycles
    /\ node_count(tree, <<>>) < MaxNodes
    /\ \E o \in cycle(tree, s, link, "Agent") :
          /\ tree' = o.tree
          /\ tlast' = TCalled("cycle", <<>>,
                              IF o.ret = "OkTrue"
                              THEN o
                              ELSE [o EXCEPT !.history = <<>>, !.asked = <<>>],
                              FALSE)
          /\ cycles' = IF o.ret = "OkTrue" THEN cycles + 1 ELSE cycles
          /\ ended' = [p \in DOMAIN o.tree |->
                          (IF p \in DOMAIN ended THEN ended[p] ELSE 0)
                          + (IF o.ret = "OkTrue" /\ p = o.path THEN 1 ELSE 0)]
          /\ UNCHANGED <<fresh, gvars, bvars, svars, pvars, cvars, avars, nvars>>

Decide(decision) ==
    LET Return(r) ==
            /\ tree' = r.tree
            /\ tlast' = TCalled("decide", <<decision>>,
                                Outcome(r.tree, r.ret, <<>>, FALSE, <<>>, <<>>), FALSE)
            /\ UNCHANGED <<cycles, ended, fresh, gvars, bvars, svars, pvars, cvars, avars, nvars>>
    IN  Return(decide(tree, decision))

\* McstAgent::decide of an agent whose decision policy is policy.
DecideBy(policy, decision) ==
    LET Return(r) ==
            /\ tree' = r.tree
            /\ tlast' = TCalled("decide", <<decision, policy>>,
                                Outcome(r.tree, r.ret, <<>>, FALSE, <<>>, <<>>), FALSE)
            /\ UNCHANGED <<cycles, ended, fresh, gvars, bvars, svars, pvars, cvars, avars, nvars>>
    IN  Return(decide(tree, decision))

NextTwoMoves(mv1, mv2) ==
    LET Return(r) ==
            /\ tree' = r.tree
            /\ tlast' = TCalled("next_two_moves", <<mv1, mv2>>,
                                Outcome(r.tree, r.ret, <<>>, FALSE, <<>>, <<>>),
                                r.notified)
            /\ fresh' = (fresh /\ ~r.ret)
            /\ ended' = IF r.ret THEN [p \in DOMAIN r.tree |-> 0] ELSE ended
            /\ UNCHANGED <<cycles, gvars, bvars, svars, pvars, cvars, avars, nvars>>
    IN  Return(next_two_moves(tree, mv1, mv2))

NextTree ==
    \/ \E s \in SelectorOutputs(tree) :
          \E link \in (IF s.some /\ search(tree, s.val)
                        THEN PolicyTurns(tree[s.val].game)
                        ELSE {Pass}) :
             Cycle(s, link)
    \/ \E decision \in PolicyTurns(tree[<<>>].game) : Decide(decision)
    \/ \E policy \in DecisionPolicies :
          \E decision \in policy_decide(policy, tree) : DecideBy(policy, decision)
    \/ \E mv1 \in PolicyTurns(tree[<<>>].game) :
          \E mv2 \in PolicyTurns(make_move_fast(clone(tree[<<>>].game), mv1).game) :
             NextTwoMoves(mv1, mv2)

\* Each specification drives one of the objects and leaves the others as
\* constructed.
TIdle ==
    /\ tree = McstTree_new(Gamestate_new)
    /\ tlast = TCalled("new", <<>>, Outcome(tree, "Ok", <<>>, FALSE, <<>>, <<>>), FALSE)
    /\ cycles = 0
    /\ ended = [p \in DOMAIN tree |-> 0]
    /\ fresh = TRUE

GIdle ==
    /\ game = Gamestate_new
    /\ before = clone(game)
    /\ last = Called("new", Pass, Ret(TRUE, <<>>))

BIdle ==
    /\ board = Board_new
    /\ out = Called("new", Pass, Ret(TRUE, <<>>))

SIdle ==
    /\ queue = BfsSelectionFast_new
    /\ agents = "Agent"

PIdle ==
    /\ play = "idle"
    /\ mem = <<>>

CIdle == codec = "idle"

AIdle ==
    /\ bag = "idle"
    /\ got = "idle"
    /\ want = "idle"

NIdle == tensor = "idle"

Init == GInit /\ BIdle /\ TIdle /\ SIdle /\ PIdle /\ CIdle /\ AIdle /\ NIdle

Spec == Init /\ [][Next]_vars

InitBoard == BInit /\ GIdle /\ TIdle /\ SIdle /\ PIdle /\ CIdle /\ AIdle /\ NIdle

SpecBoard == InitBoard /\ [][NextBoard]_vars

InitTree == TInit /\ GIdle /\ BIdle /\ SIdle /\ PIdle /\ CIdle /\ AIdle /\ NIdle

SpecTree == InitTree /\ [][NextTree]_vars

\* An agent whose selection policy is UctSelection: cycle() with the path
\* that policy returns; the expansion policy, the rollout agents and the
\* decision policy stay inputs. The call is recorded with the policy and
\* the selected path as its argument.
CycleUct(sel, link) ==
    /\ cycles < MaxCycles
    /\ node_count(tree, <<>>) < MaxNodes
    /\ \E o \in cycle(looked_at(tree, sel), Some(sel), link, "Agent") :
          /\ tree' = o.tree
          /\ tlast' = TCalled("cycle", <<"UctSelection", sel>>,
                              IF o.ret = "OkTrue"
                              THEN o
                              ELSE [o EXCEPT !.history = <<>>, !.asked = <<>>],
                              FALSE)
          /\ cycles' = IF o.ret = "OkTrue" THEN cycles + 1 ELSE cycles
          /\ ended' = [p \in DOMAIN o.tree |->
                          (IF p \in DOMAIN ended THEN ended[p] ELSE 0)
                          + (IF o.ret = "OkTrue" /\ p = o.path THEN 1 ELSE 0)]
          /\ UNCHANGED <<fresh, gvars, bvars, svars, pvars, cvars, avars, nvars>>

NextUct ==
    \/ \E sel \in UctSelection_select(tree) :
          \E link \in PolicyTurns(tree[sel].game) : CycleUct(sel, link)
    \/ \E decision \in policy_decide("UctDecision", tree) :
          DecideBy("UctDecision", decision)
    \/ \E mv1 \in PolicyTurns(tree[<<>>].game) :
          \E mv2 \in PolicyTurns(make_move_fast(clone(tree[<<>>].game), mv1).game) :
             NextTwoMoves(mv1, mv2)

SpecUct == InitTree /\ [][NextUct]_vars

\* An agent whose selection policy is BfsSelectionFast and whose expansion
\* policy is BfsExpansion. Its rollout agents are those of BfsMemoryAgent,
\* two RandomAgents, or on the small roots any Agent.
RandomAgents == {"RandomAgent:first", "RandomAgent:last"}

SInit ==
    /\ queue = BfsSelectionFast_new
    /\ \/ /\ tree \in {McstTree_new(g) : g \in RootGames}
          /\ agents \in {"Agent"} \cup RandomAgents
       \/ /\ tree = McstTree_new(Gamestate_new)
          /\ agents \in RandomAgents
    /\ tlast = TCalled("new", <<>>, Outcome(tree, "Ok", <<>>, FALSE, <<>>, <<>>), FALSE)
    /\ cycles = 0
    /\ ended = [p \in DOMAIN tree |-> 0]
    /\ fresh = TRUE

EmptyCells(b) == {c \in Idx \X Idx : b[c[2]][c[1]] = "Empty"}

\* SelectionPolicy::select called on the agent's policy.
BfsSelect ==
    LET Return(r) ==
            /\ tree' = r.tree
            /\ queue' = r.queue
            /\ tlast' = TCalled("select", <<"BfsSelectionFast", r.ret>>,
                                Outcome(r.tree, IF r.panic THEN "Panic" ELSE "Ok",
                                        <<>>, FALSE, <<>>, <<>>),
                                FALSE)
            /\ UNCHANGED <<cycles, ended, fresh, agents, gvars, bvars, pvars, cvars, avars, nvars>>
    IN  Return(BfsSelectionFast_select(tree, queue))

\* McstAgent::cycle of that agent: the selection, the expansion policy's
\* answer for the selected node, then cycle with the two.
BfsCycle ==
    LET Outcomes(sel, link) ==
            IF sel.panic \/ link.panic
            THEN { Outcome(sel.tree, "Panic", <<>>, FALSE, <<>>, <<>>) }
            ELSE cycle(sel.tree, sel.ret, link.val, agents)
        Return(sel) ==
            \E o \in Outcomes(sel, IF sel.ret.some
                                   THEN BfsExpansion_expand(sel.tree, sel.ret.val)
                                   ELSE [panic |-> FALSE, val |-> Pass]) :
               /\ tree' = o.tree
               /\ queue' = sel.queue
               /\ tlast' = TCalled("cycle", <<"BfsSelectionFast", sel.ret>>,
                                   IF o.ret = "OkTrue"
                                   THEN o
                                   ELSE [o EXCEPT !.history = <<>>, !.asked = <<>>],
                                   FALSE)
               /\ cycles' = IF o.ret = "OkTrue" THEN cycles + 1 ELSE cycles
               /\ ended' = [p \in DOMAIN o.tree |->
                               (IF p \in DOMAIN ended THEN ended[p] ELSE 0)
                               + (IF o.ret = "OkTrue" /\ p = o.path THEN 1 ELSE 0)]
               /\ UNCHANGED <<fresh, agents, gvars, bvars, pvars, cvars, avars, nvars>>
    IN  /\ cycles < MaxBfsCycles
        /\ Return(BfsSelectionFast_select(tree, queue))

\* McstAgent::next_two_moves of that agent, the selection policy's
\* turns_passed included. The call is recorded with the queue it found.
BfsNextTwoMoves(mv1, mv2) ==
    LET Return(r) ==
            /\ tree' = r.tree
            /\ queue' = IF r.notified
                        THEN BfsSelectionFast_turns_passed(queue)
                        ELSE queue
            /\ tlast' = TCalled("next_two_moves", <<mv1, mv2, queue>>,
                                Outcome(r.tree, r.ret, <<>>, FALSE, <<>>, <<>>),
                                r.notified)
            /\ fresh' = (fresh /\ ~r.ret)
            /\ ended' = IF r.ret THEN [p \in DOMAIN r.tree |-> 0] ELSE ended
            /\ UNCHANGED <<cycles, agents, gvars, bvars, pvars, cvars, avars, nvars>>
    IN  /\ fresh
        /\ Cardinality(EmptyCells(tree[<<>>].game.board)) <= MaxEmptyCells
        /\ Return(next_two_moves(tree, mv1, mv2))

NextBfs ==
    \/ BfsSelect
    \/ BfsCycle
    \/ \E mv1 \in PolicyTurns(tree[<<>>].game) :
          \E mv2 \in PolicyTurns(make_move_fast(clone(tree[<<>>].game), mv1).game) :
             BfsNextTwoMoves(mv1, mv2)

InitBfs == SInit /\ GIdle /\ BIdle /\ PIdle /\ CIdle /\ AIdle /\ NIdle

SpecBfs == InitBfs /\ [][NextBfs]_vars

\* A fresh agent of that kind on a root with few descendants, on which
\* nothing but cycle() is called, again and again.
InitBfsRun ==
    /\ InitBfs
    /\ tree[<<>>].game \in RootGames

NextBfsRun == BfsCycle

\* cycle() can still be called with a new effect: the bound on the calls is
\* not reached and the last call did not return Ok(false) or panic (a call
\* after either leaves every variable as it is).
CyclePending ==
    /\ cycles < MaxBfsCycles
    /\ ~(tlast.op = "cycle" /\ tlast.ret \in {"OkFalse", "Panic"})

\* The caller's loop calls cycle() again and again: weak fairness of
\* BfsCycle, WF_vars(BfsCycle), with ENABLED <<BfsCycle>>_vars written out
\* as CyclePending.
SpecBfsRun ==
    /\ InitBfsRun
    /\ [][NextBfsRun]_vars
    /\ ([]<>(~CyclePending) \/ []<><<BfsCycle>>_vars)

\* play_memory_agents with two agents, one of them any implementation of
\* the trait and the other of any of the kinds; the RandomAgents of a
\* BfsMemoryAgent or UctMemoryAgent draw the lowest index every time.
PInit ==
    /\ play = [pc |-> "start", game |-> Gamestate_new, history |-> <<>>, score |-> 0,
               applied |-> <<>>, calls |-> <<>>, asked |-> None, told |-> None]
    /\ mem \in { << MemoryAgent_new(k[1], r), MemoryAgent_new(k[2], r) >> :
                 k \in {kk \in MemoryAgents \X MemoryAgents : "MemoryAgent" \in Range(kk)},
                 r \in {"RandomAgent:first"} }

\* play_memory_agents from its start to the loop: agent1's first move.
PlayFirst ==
    /\ play.pc = "start"
    /\ \E r \in play_memory_agents_first(play, mem) :
          /\ play' = r.play
          /\ mem' = r.mem
    /\ UNCHANGED <<gvars, bvars, tvars, svars, cvars, avars, nvars>>

\* One iteration of its loop: the return, or one more move.
PlayIteration ==
    /\ play.pc = "loop"
    /\ is_terminal(play.game) \/ Len(play.applied) < MaxPlies
    /\ \E r \in play_memory_agents_iteration(play, mem) :
          /\ play' = r.play
          /\ mem' = r.mem
    /\ UNCHANGED <<gvars, bvars, tvars, svars, cvars, avars, nvars>>

NextPlay ==
    \/ PlayFirst
    \/ PlayIteration

InitPlay == PInit /\ GIdle /\ BIdle /\ TIdle /\ SIdle /\ CIdle /\ AIdle /\ NIdle

SpecPlay == InitPlay /\ [][NextPlay]_vars

\* str_to_turns and turns_to_str, called one on the result of the other,
\* starting from a string or from a list of turns.
CInit ==
    codec \in { [op |-> "input", ret |-> <<>>, text |-> Some(x), turns |-> None] :
                x \in Texts }
          \cup { [op |-> "input", ret |-> <<>>, text |-> None, turns |-> Some(l)] :
                 l \in TurnLists }

\* str_to_turns on the string that was put in or that turns_to_str returned.
StrToTurns ==
    /\ \/ codec.op = "input" /\ codec.text.some
       \/ codec.op = "turns_to_str"
    /\ \E x \in {IF codec.op = "input" THEN codec.text.val ELSE codec.ret} :
          codec' = [op |-> "str_to_turns", ret |-> str_to_turns(x),
                    text |-> Some(x), turns |-> codec.turns]
    /\ UNCHANGED <<gvars, bvars, tvars, svars, pvars, avars, nvars>>

\* turns_to_str on the list that was put in or that str_to_turns returned.
TurnsToStr ==
    /\ \/ codec.op = "input" /\ codec.turns.some
       \/ codec.op = "str_to_turns" /\ codec.ret.some
    /\ \E l \in {IF codec.op = "input" THEN codec.turns.val ELSE codec.ret.val} :
          codec' = [op |-> "turns_to_str", ret |-> turns_to_str(l),
                    text |-> codec.text, turns |-> Some(l)]
    /\ UNCHANGED <<gvars, bvars, tvars, svars, pvars, avars, nvars>>

NextCodec == StrToTurns \/ TurnsToStr

InitCodec == CInit /\ GIdle /\ BIdle /\ TIdle /\ SIdle /\ PIdle /\ AIdle /\ NIdle

SpecCodec == InitCodec /\ [][NextCodec]_vars

\* Every operation of Gamestate, on the games of Init and on games whose
\* board is full or nearly full: both sides' stones in equal number
\* (EndBoard), one side's only (FullBoard), and a board on which Black's
\* move takes the last White stone and the last empty cell (LastStone).
FullBoard(p) == [y \in Idx |-> [x \in Idx |-> p]]

LastStone == [FullBoard("Black") EXCEPT ![0][0] = "Empty", ![0][1] = "White"]

DenseBoards ==
    {FullBoard(p) : p \in Players} \cup {LastStone}
        \cup {EndBoard(k) : k \in 0..Len(EndCells)}

OInit ==
    /\ game \in {Gamestate_new}
                \cup {Gamestate_new_from(b, t) : b \in MockBoards \cup DenseBoards,
                                                 t \in {0, 1}}
    /\ before = clone(game)
    /\ last = Called("new", Pass, Ret(TRUE, <<>>))

Clone ==
    /\ before' = clone(game)
    /\ last' = Called("clone", Pass, Ret(TRUE, <<>>))
    /\ UNCHANGED <<game, bvars, tvars, svars, pvars, cvars, avars, nvars>>

\* score() returns a value, or panics where its sum overflows and overflow
\* is checked.
Score ==
    /\ before' = clone(game)
    /\ last' = Called("score", Pass, Ret(~score_overflows(game.board), score(game)))
    /\ UNCHANGED <<game, bvars, tvars, svars, pvars, cvars, avars, nvars>>

ValidMove(m) ==
    /\ \E r \in {valid_move(game, m)} :
          /\ before' = clone(game)
          /\ game' = r.game
          /\ last' = Called("valid_move", m, Ret(r.ret, <<>>))
    /\ UNCHANGED <<bvars, tvars, svars, pvars, cvars, avars, nvars>>

\* The lists given to make_moves_fast: none, one turn (a legal move or a
\* probe), or a legal move followed by a legal move or a probe of the game
\* it leads to (the loop stops at a turn that fails, whatever follows it).
TurnListInputs(g) ==
    {<<>>} \cup { <<m>> : m \in TurnInputs(g) }
           \cup UNION { { <<m, n>> : n \in TurnInputs(make_move_fast(g, m).game) } :
                        m \in Range(get_moves(g).ret) }

MakeMovesFast(turns) ==
    /\ \E r \in {make_moves_fast(game, turns)} :
          /\ r.game.turn <= MaxTurn
          /\ before' = clone(game)
          /\ game' = r.game
          /\ last' = Called("make_moves_fast", turns, Ret(r.ret, <<>>))
    /\ UNCHANGED <<bvars, tvars, svars, pvars, cvars, avars, nvars>>

NextOps ==
    \/ Next
    \/ Clone
    \/ Score
    \/ \E m \in TurnInputs(game) : ValidMove(m)
    \/ \E turns \in TurnListInputs(game) : MakeMovesFast(turns)

InitOps == OInit /\ BIdle /\ TIdle /\ SIdle /\ PIdle /\ CIdle /\ AIdle /\ NIdle

SpecOps == InitOps /\ [][NextOps]_vars

\* compact_to_tensor on a compact value.
NInit == tensor \in { [op |-> "input", compact |-> c, v |-> <<>>] : c \in Compacts }

CompactToTensor ==
    /\ tensor.op = "input"
    /\ tensor' = [op |-> "compact_to_tensor", compact |-> tensor.compact,
                  v |-> compact_to_tensor(tensor.compact)]
    /\ UNCHANGED <<gvars, bvars, tvars, svars, pvars, cvars, avars>>

NextTensor == CompactToTensor

InitTensor == NInit /\ GIdle /\ BIdle /\ TIdle /\ SIdle /\ PIdle /\ CIdle /\ AIdle

SpecTensor == InitTensor /\ [][NextTensor]_vars

\* next() called again and again on a BfsAllGamestates, and beside it the
\* queue of tests::test_bfsallgamestates, from which a state is popped and
\* to which its children are pushed whenever next() gives a state. The
\* iterator starts at the standard start, as new() makes it, or, so that
\* games that end and a traversal that ends are met, at a board with few
\* empty cells and Black to move.
BagRoots == {Gamestate_new} \cup {Gamestate_new_from(EndBoard(k), 0) : k \in 1..Len(EndCells)}
                            \cup {Gamestate_new_from(LastStone, 0)}

AInit ==
    /\ bag \in {BfsAllGamestates_new(g) : g \in BagRoots}
    /\ got = [op |-> "new", ret |-> None, panic |-> ""]
    /\ want = [q |-> <<bag.state>>, expected |-> None, unwrap |-> TRUE]

\* pop_front().unwrap() and the push_back of the children; unwrap tells
\* whether q held a state.
Popped(w) ==
    IF w.q = <<>>
    THEN [w EXCEPT !.expected = None, !.unwrap = FALSE]
    ELSE [q |-> Tail(w.q) \o pushed_back(Head(w.q)),
          expected |-> Some(Head(w.q)),
          unwrap |-> TRUE]

BagNext ==
    /\ bag.level <= MaxLevel
    /\ bag.panic = ""
    /\ \E r \in {BfsAllGamestates_next(bag)} :
          /\ bag' = r.iter
          /\ got' = [op |-> "next", ret |-> r.ret, panic |-> r.iter.panic]
          /\ want' = IF r.ret.some THEN Popped(want) ELSE want
    /\ UNCHANGED <<gvars, bvars, tvars, svars, pvars, cvars, nvars>>

NextBag == BagNext

InitBag == AInit /\ GIdle /\ BIdle /\ TIdle /\ SIdle /\ PIdle /\ CIdle /\ NIdle

SpecBag == InitBag /\ [][NextBag]_vars

\* A game played to its end with make_move_fast, as a rollout and
\* play_memory_agents play it: from the standard start along WipeOut, the
\* shortest of games, and, with every legal move, from boards with at most
\* MaxEmptyCells cells of EndCells empty.
Swapped(b) == [y \in Idx |-> [x \in Idx |->
                  IF b[y][x] = "Empty" THEN "Empty" ELSE Other(b[y][x])]]

EndGames ==
    { [g EXCEPT !.board = [y \in Idx |-> [x \in Idx |->
          IF <<x, y>> \in empty THEN "Empty" ELSE g.board[y][x]]]] :
      g \in {Gamestate_new_from(b, t) :
                b \in {EndBoard(0), Swapped(EndBoard(0)), FullBoard("Black")},
                t \in {0, 1}},
      empty \in {e \in SUBSET Range(EndCells) : Cardinality(e) <= MaxEmptyCells} }
        \cup {Gamestate_new_from(LastStone, t) : t \in {0, 1}}

RInit ==
    /\ game \in {Gamestate_new} \cup EndGames
    /\ before = clone(game)
    /\ last = Called("new", Pass, Ret(TRUE, <<>>))

\* The moves the players of the game make: any legal move where few cells
\* are empty, the next move of WipeOut elsewhere.
PlayedMoves(g) ==
    IF Cardinality(EmptyCells(g.board)) <= MaxEmptyCells
    THEN Range(get_moves(g).ret)
    ELSE {WipeOut[i] : i \in {g.turn + 1} \cap DOMAIN WipeOut} \cap Range(get_moves(g).ret)

PlayMove ==
    \E m \in PlayedMoves(game) :
       \E r \in {make_move_fast(game, m)} :
          /\ before' = clone(game)
          /\ game' = r.game
          /\ last' = Called("make_move_fast", m, Ret(r.ret, <<>>))
          /\ UNCHANGED <<bvars, tvars, svars, pvars, cvars, avars, nvars>>

NextRun == PlayMove

InitRun == RInit /\ BIdle /\ TIdle /\ SIdle /\ PIdle /\ CIdle /\ AIdle /\ NIdle

\* A move is still to be made: the game is not over.
MovePending == get_moves(game).ret # <<>>

\* The players go on as long as the game is not over: weak fairness of
\* PlayMove, WF_vars(PlayMove), with ENABLED <<PlayMove>>_vars written out
\* as MovePending.
SpecRun ==
    /\ InitRun
    /\ [][NextRun]_vars
    /\ ([]<>(~MovePending) \/ []<><<PlayMove>>_vars)

\* ------------------------------------------------- the rules, declaratively
\* The eight compass directions as signed offsets.
Dirs == {d \in {-1, 0, 1} \X {-1, 0, 1} : d # <<0, 0>>}

OnBoard(x, y) == x \in Idx /\ y \in Idx

Side(g) == IF g.turn % 2 = 0 THEN "Black" ELSE "White"

\* From (x, y) in direction d the cells at distance 1..n-1 hold stones of
\* the opponent of p and the cell at distance n holds a stone of p, all of
\* them on the board.
Bounded(b, x, y, d, p, n) ==
    /\ OnBoard(x + n * d[1], y + n * d[2])
    /\ b[y + n * d[2]][x + n * d[1]] = p
    /\ \A j \in 1..(n - 1) : b[y + j * d[2]][x + j * d[1]] = Other(p)

\* The cells the rules say a stone of p placed on (x, y) turns over.
Captures(b, x, y, p) ==
    UNION { { <<x + j * e[1][1], y + j * e[1][2]>> : j \in 1..(e[2] - 1) } :
            e \in { f \in Dirs \X (2..(BoardSize - 1)) :
                      Bounded(b, x, y, f[1], p, f[2]) } }

Legal(b, x, y, p) ==
    /\ b[y][x] = "Empty"
    /\ \E d \in Dirs :
          /\ OnBoard(x + d[1], y + d[2])
          /\ b[y + d[2]][x + d[1]] = Other(p)
          /\ \E n \in 2..(BoardSize - 1) : Bounded(b, x, y, d, p, n)

HasCoordinateMove(b, p) == \E x \in Idx, y \in Idx : Legal(b, x, y, p)

AllTurns == (Idx \X Idx) \cup Probes

MoveOps == {"make_move", "make_move_fast"}

\* ------------------------------------------------------------------ claims
\* C1: a move succeeds (make_move_fast returns true, make_move a list)
\* if and only if it is an element of get_moves() as computed before the
\* call: for the call just made, and for every turn that could be tried
\* on the present state.
C1_MoveLegalitySymmetry ==
    /\ last.op \in MoveOps
          => (last.ret.ok <=> Contains(get_moves(before).ret, last.arg))
    /\ LET g == get_moves(game)
       IN  \A m \in AllTurns :
              /\ make_move_fast(g.game, m).ret <=> Contains(g.ret, m)
              /\ make_move(g.game, m).ret.some <=> Contains(g.ret, m)

C1_Witness ==
    /\ last.op = "make_move_fast"
    /\ last.ret.ok
    /\ last.arg # Pass
    /\ game.turn = before.turn + 1

\* C2: if Pass is in get_moves() the list is exactly [Pass], the side to
\* move has no coordinate move and the opponent has one; a list holding a
\* coordinate never holds Pass.
C2_PassExclusivity ==
    LET l == get_moves(game).ret
    IN  /\ Contains(l, Pass) =>
              /\ l = <<Pass>>
              /\ ~HasCoordinateMove(game.board, Side(game))
              /\ HasCoordinateMove(game.board, Other(Side(game)))
        /\ (\E i \in DOMAIN l : l[i] # Pass) => ~Contains(l, Pass)

C2_Witness ==
    /\ last.op = "get_moves"
    /\ last.ret.val = <<Pass>>
    /\ game.moves = SomeMoves(<<Pass>>)

\* C3: get_moves() is empty (whose_turn() is Empty) exactly when neither
\* side has a coordinate move; in such a state every move fails, Pass
\* included, and the state stays terminal.
C3_TerminalClosure ==
    LET g == get_moves(game)
    IN  /\ (g.ret = <<>>) <=> (whose_turn(game).ret = "Empty")
        /\ (g.ret = <<>>) <=> (/\ ~HasCoordinateMove(game.board, "Black")
                               /\ ~HasCoordinateMove(game.board, "White"))
        /\ g.ret = <<>> =>
              \A m \in AllTurns :
                 /\ ~make_move(g.game, m).ret.some
                 /\ ~make_move_fast(g.game, m).ret
                 /\ get_moves(make_move(g.game, m).game).ret = <<>>
                 /\ get_moves(make_move_fast(g.game, m).game).ret = <<>>
        /\ (last.op \in MoveOps /\ get_moves(before).ret = <<>>) =>
              ~last.ret.ok /\ g.ret = <<>>

C3_Witness ==
    /\ last.op \in MoveOps
    /\ last.arg = Pass
    /\ ~last.ret.ok
    /\ get_moves(before).ret = <<>>
    /\ \E x \in Idx, y \in Idx : game.board[y][x] # "Empty"

\* C4: a move that fails (make_move_fast false, make_move None) leaves the
\* 64 cells and the half-move counter as they were.
C4_FailedMoveKeepsState ==
    /\ (last.op \in MoveOps /\ ~last.ret.ok) =>
          game.board = before.board /\ game.turn = before.turn
    /\ LET g == get_moves(game).game
       IN  \A m \in AllTurns :
              LET r == make_move(g, m)
                  f == make_move_fast(g, m)
              IN  /\ ~r.ret.some =>
                        r.game.board = game.board /\ r.game.turn = game.turn
                  /\ ~f.ret =>
                        f.game.board = game.board /\ f.game.turn = game.turn

C4_Witness ==
    /\ last.op = "make_move"
    /\ ~last.ret.ok
    /\ last.arg \in Idx \X Idx
    /\ get_moves(before).ret # <<>>

\* The board the rules give after p places a stone on (x, y).
BoardAfter(b, x, y, p) ==
    LET turned == Captures(b, x, y, p)
    IN  [yy \in Idx |-> [xx \in Idx |->
            IF <<xx, yy>> = <<x, y>> \/ <<xx, yy>> \in turned
            THEN p
            ELSE b[yy][xx]]]

C8_PassOnlyAdvancesCounter ==
    /\ (last.op \in MoveOps /\ last.arg = Pass /\ get_moves(before).ret = <<Pass>>) =>
          /\ last.ret.ok
          /\ game.board = before.board
          /\ game.turn = before.turn + 1
          /\ whose_turn(game).ret = Other(Side(before))
          /\ \E i \in DOMAIN get_moves(game).ret : get_moves(game).ret[i] # Pass
    /\ LET g == get_moves(game)
       IN  g.ret = <<Pass>> =>
              LET r == make_move(g.game, Pass)
                  f == make_move_fast(g.game, Pass)
              IN  /\ r.ret.some /\ r.ret.val = <<>> /\ f.ret
                  /\ r.game.board = game.board /\ f.game.board = game.board
                  /\ r.game.turn = game.turn + 1 /\ f.game.turn = game.turn + 1
                  /\ whose_turn(f.game).ret = Other(Side(game))
                  /\ whose_turn(r.game).ret = Other(Side(game))
                  /\ \E i \in DOMAIN get_moves(f.game).ret :
                        get_moves(f.game).ret[i] # Pass

C8_Witness ==
    /\ last.op = "make_move_fast"
    /\ last.arg = Pass
    /\ last.ret.ok
    /\ get_moves(before).ret = <<Pass>>
    /\ game.turn = before.turn + 1

\* C9 (the claim as stated): two Gamestates are equal under == exactly
\* when their boards and their counters agree, whether or not get_moves()
\* has been called on either.
C9_EqualityIgnoresCache ==
    Gamestate_eq(game, before)
       <=> (game.board = before.board /\ game.turn = before.turn)

\* C5: Board::get_moves(side) returns exactly the empty cells from which
\* some direction has a run of one or more opponent stones followed at once
\* by a stone of side, all on the board (signed arithmetic: a run never
\* continues past an edge), each cell once.
C5_GetMovesAreTheCapturingCells ==
    /\ \A p \in Players :
          LET l == Board_get_moves(board, p)
          IN  /\ Range(l) = {c \in Idx \X Idx : Legal(board, c[1], c[2], p)}
              /\ Len(l) = Cardinality(Range(l))
    /\ out.op = "get_moves" =>
          Range(out.ret.val) = {c \in Idx \X Idx : Legal(board, c[1], c[2], out.arg)}

\* A run that ends at the left edge: the walk from the returned cell
\* reaches x = 0 and the next step wraps to x = 255.
C5_Witness ==
    /\ out.op = "get_moves"
    /\ out.ret.val = << <<2, 0>> >>
    /\ board[0][0] = out.arg
    /\ board[0][1] = Other(out.arg)
    /\ board[0][7] # "Empty"

\* C7: on two copies of a board flip_all(x, y) and flip_all_fast(x, y)
\* leave the same board, and flip_all_fast returns true exactly when
\* flip_all returns a non-empty list; so make_move and make_move_fast
\* succeed on the same moves and give the same board and counter.
C7_FastFlipAgrees ==
    /\ \A x \in Idx, y \in Idx :
          LET r == flip_all(board, x, y)
              f == flip_all_fast(board, x, y)
          IN  r.board = f.board /\ (f.ret <=> r.ret # <<>>)
    /\ \A p \in Players : \A x \in Idx, y \in Idx :
          board[y][x] = "Empty" =>
             LET r == flip_all(change(board, x, y, p), x, y)
                 f == flip_all_fast(change(board, x, y, p), x, y)
             IN  r.board = f.board /\ (f.ret <=> r.ret # <<>>)
    /\ \A t \in {0, 1} :
          LET g == get_moves(Gamestate_new_from(board, t))
          IN  \A m \in AllTurns :
                 LET r == make_move(g.game, m)
                     f == make_move_fast(g.game, m)
                 IN  /\ r.ret.some <=> f.ret
                     /\ r.game.board = f.game.board
                     /\ r.game.turn = f.game.turn

C7_Witness ==
    /\ out.op = "flip_all_fast"
    /\ out.ret.ok
    /\ flip_all(board, out.arg[1], out.arg[2]).ret = <<>>
    /\ Stones(board) > 4

\* The sum of the totals of the nodes at the paths ps.
RECURSIVE SumTotals(_, _)
SumTotals(t, ps) ==
    IF ps = {}
    THEN 0
    ELSE LET q == CHOOSE q \in ps : TRUE
         IN  t[q].total + SumTotals(t, ps \ {q})

ChildPaths(t, p) == {Append(p, m) : m \in children(t, p)}

\* C10: on a tree whose root has not been replaced, after k calls of
\* cycle() that returned Ok(true) the root's total is k, and the total of
\* every other node is the sum of its children's totals plus the number
\* of those cycles whose final path ended at the node.
C10_TotalsAccountForCycles ==
    fresh =>
       /\ tree[<<>>].total = cycles
       /\ \A p \in DOMAIN tree :
             p # <<>> => tree[p].total = SumTotals(tree, ChildPaths(tree, p)) + ended[p]

C10_Witness ==
    /\ fresh
    /\ tlast.op = "cycle"
    /\ tlast.ret = "OkTrue"
    /\ cycles >= 3
    /\ \E p \in DOMAIN tree :
          /\ p # <<>>
          /\ children(tree, p) # {}
          /\ ended[p] >= 1
          /\ SumTotals(tree, ChildPaths(tree, p)) >= 1
          /\ tree[p].total = cycles

\* The statistics a node had before a call: those of the tree before the
\* call, or those of a new node if the call created it.
StatsBefore(t, t1, p) ==
    IF p \in DOMAIN t THEN t[p] ELSE McstNode_new(t1[p].game)

\* C11: a cycle() that returns Ok(true) with final path of length L adds
\* one to total, and one to wins iff the rollout was a win, on exactly the
\* L+1 nodes at the prefixes of that path (the root and a newly created
\* child included), and changes total and wins of no other node.
C11_CycleUpdatesExactlyThePath ==
    [][ (tlast'.op = "cycle" /\ tlast'.ret = "OkTrue") =>
           /\ DOMAIN tree \subseteq DOMAIN tree'
           /\ Cardinality({p \in DOMAIN tree' : HasPrefix(tlast'.path, p)})
                 = Len(tlast'.path) + 1
           /\ \A p \in DOMAIN tree' :
                 IF HasPrefix(tlast'.path, p)
                 THEN /\ tree'[p].total = StatsBefore(tree, tree', p).total + 1
                      /\ tree'[p].wins = StatsBefore(tree, tree', p).wins
                                            + (IF tlast'.win THEN 1 ELSE 0)
                 ELSE /\ p \in DOMAIN tree
                      /\ tree'[p].total = tree[p].total
                      /\ tree'[p].wins = tree[p].wins ]_vars

C11_Witness ==
    /\ tlast.op = "cycle" /\ tlast.ret = "OkTrue" /\ tlast.win
    /\ Len(tlast.path) >= 2
    /\ \E p \in DOMAIN tree : ~HasPrefix(tlast.path, p) /\ tree[p].total >= 1
    /\ \E p \in DOMAIN tree : HasPrefix(tlast.path, p) /\ tree[p].wins < tree[p].total

\* The paths of t below the node at pre, relative to that node.
PathsBelow(t, pre) ==
    {SubSeq(p, Len(pre) + 1, Len(p)) : p \in {r \in DOMAIN t : HasPrefix(r, pre)}}

\* C12: if next_two_moves(m1, m2) returns true, the new root's game has
\* the board and the counter of a clone of the old root's game after m1
\* then m2, and every node of the subtree that was at [m1, m2] keeps its
\* wins, total, game and children; a grandchild that did not exist
\* becomes a root with wins = total = 0 and no children.
C12_ReRootKeepsTheSubtree ==
    [][ (tlast'.op = "next_two_moves" /\ tlast'.ret) =>
           /\ make_moves_fast(clone(tree[<<>>].game), tlast'.arg).ret
           /\ tree'[<<>>].game.board
                 = make_moves_fast(clone(tree[<<>>].game), tlast'.arg).game.board
           /\ tree'[<<>>].game.turn = tree[<<>>].game.turn + 2
           /\ IF tlast'.arg \in DOMAIN tree
              THEN /\ DOMAIN tree' = PathsBelow(tree, tlast'.arg)
                   /\ \A q \in DOMAIN tree' : tree'[q] = tree[tlast'.arg \o q]
              ELSE /\ DOMAIN tree' = {<<>>}
                   /\ tree'[<<>>].wins = 0
                   /\ tree'[<<>>].total = 0 ]_vars

C12_Witness ==
    /\ tlast.op = "next_two_moves" /\ tlast.ret
    /\ tree[<<>>].total >= 1
    /\ \E p \in DOMAIN tree : p # <<>> /\ tree[p].total >= 1

\* m is a legal move of g.
LegalIn(g, m) == Contains(get_moves(g).ret, m)

\* m1 is legal in g and m2 is legal in g after m1.
LegalPair(g, m1, m2) ==
    /\ LegalIn(g, m1)
    /\ LegalIn(make_move_fast(clone(g), m1).game, m2)

\* C13: if m1 is illegal in the root game, or m1 is legal but m2 is
\* illegal in the game after m1, next_two_moves(m1, m2) returns false and
\* the whole tree is unchanged (no child attached for m1, the root not
\* replaced) and the selection policy is not notified.
C13_IllegalPairChangesNothing ==
    [][ (tlast'.op = "next_two_moves"
           /\ ~LegalPair(tree[<<>>].game, tlast'.arg[1], tlast'.arg[2])) =>
           /\ ~tlast'.ret
           /\ tree' = tree
           /\ ~tlast'.notified ]_vars

C13_Witness ==
    /\ tlast.op = "next_two_moves" /\ ~tlast.ret /\ ~tlast.notified
    /\ LegalIn(tree[<<>>].game, tlast.arg[1])
    /\ tlast.arg[1] \notin children(tree, <<>>)
    /\ ~LegalPair(tree[<<>>].game, tlast.arg[1], tlast.arg[2])
    /\ Cardinality(DOMAIN tree) >= 2

\* The two trees have the same nodes, each with the same wins, total,
\* board and counter.
SameNodes(t, t1) ==
    /\ DOMAIN t1 = DOMAIN t
    /\ \A p \in DOMAIN t :
          /\ t1[p].wins = t[p].wins
          /\ t1[p].total = t[p].total
          /\ t1[p].game.board = t[p].game.board
          /\ t1[p].game.turn = t[p].game.turn

\* C14: when cycle() returns CycleError::Selection, CycleError::Expansion
\* or Ok(false), the tree is the tree before the call: no node added, no
\* wins or total changed.
C14_EarlyReturnsKeepTheTree ==
    [][ (tlast'.op = "cycle"
           /\ tlast'.ret \in {"Selection::NotANode", "Expansion::IllegalMove",
                               "Expansion::AlreadyExpanded", "OkFalse"}) =>
           SameNodes(tree, tree') ]_vars

C14_Witness ==
    /\ tlast.op = "cycle" /\ tlast.ret = "Expansion::AlreadyExpanded"
    /\ \E p \in DOMAIN tree : children(tree, p) # {} /\ tree[p].total >= 2

\* C15 (the claim as stated): when cycle() returns CycleError::Rollout the
\* tree has no node that was not there before the call, and no wins or
\* total has changed.
C15_RolloutErrorKeepsTheTree ==
    [][ (tlast'.op = "cycle" /\ tlast'.ret = "Rollout::IllegalMove") =>
           SameNodes(tree, tree') ]_vars

SelectedBy(t, fp) == IF fp \in DOMAIN t THEN fp ELSE SubSeq(fp, 1, Len(fp) - 1)

C17_WinsAtMostTotal ==
    \A p \in DOMAIN tree : tree[p].wins <= tree[p].total

C17_Witness ==
    /\ tlast.op = "cycle" /\ tlast.ret = "OkTrue"
    /\ \E p \in DOMAIN tree : tree[p].wins >= 1 /\ tree[p].wins < tree[p].total
    /\ \E p \in DOMAIN tree : tree[p].wins >= 1 /\ tree[p].wins = tree[p].total

\* C18: for every node and every (move, child) entry of its children map,
\* move is a legal move of the node's game and the child's game has the
\* board and the counter of the node's game after move; so a terminal node
\* has no children, and the depth of a node is its game's counter minus
\* the root's.
C18_ChildrenAreLegalSuccessors ==
    /\ \A p \in DOMAIN tree : \A m \in children(tree, p) :
          /\ LegalIn(tree[p].game, m)
          /\ tree[Append(p, m)].game.board
                = make_move_fast(clone(tree[p].game), m).game.board
          /\ tree[Append(p, m)].game.turn
                = make_move_fast(clone(tree[p].game), m).game.turn
    /\ \A p \in DOMAIN tree :
          /\ is_terminal(tree[p].game) => children(tree, p) = {}
          /\ Len(p) = tree[p].game.turn - tree[<<>>].game.turn
          /\ p # <<>> => SubSeq(p, 1, Len(p) - 1) \in DOMAIN tree

C18_Witness ==
    /\ ~fresh
    /\ \E p \in DOMAIN tree :
          /\ Len(p) >= 2
          /\ Pass \in Range(p)
          /\ is_terminal(tree[p].game)

\* The number of stones of side p on board b.
StonesOf(b, p) == Cardinality({c \in Idx \X Idx : b[c[2]][c[1]] = p})

\* The game g after the first i moves of h.
AfterPlies(g, h, i) == make_moves_fast(clone(g), SubSeq(h, 1, i))

\* C19: for a non-terminal root, the rollout of a cycle returns win iff in
\* the terminal state it reaches the stones of the side to move at the
\* root strictly outnumber the opponent's; and the rollout agent is asked
\* exactly at the plies where the side to move is the root mover, the
\* opponent agent at all others, whatever the depth of the start node and
\* however many passes occur.
C19_RolloutVerdictAndAgents ==
    (tlast.op = "cycle" /\ tlast.ret = "OkTrue") =>
       /\ ~is_terminal(tree[<<>>].game)
       /\ AfterPlies(tree[tlast.path].game, tlast.history, Len(tlast.history)).ret
       /\ is_terminal(
              AfterPlies(tree[tlast.path].game, tlast.history, Len(tlast.history)).game)
       /\ tlast.win <=>
              StonesOf(AfterPlies(tree[tlast.path].game, tlast.history,
                                  Len(tlast.history)).game.board,
                       Side(tree[<<>>].game))
              > StonesOf(AfterPlies(tree[tlast.path].game, tlast.history,
                                    Len(tlast.history)).game.board,
                         Other(Side(tree[<<>>].game)))
       /\ Len(tlast.asked) = Len(tlast.history)
       /\ \A i \in 1..Len(tlast.history) :
              tlast.asked[i] =
                 IF Side(AfterPlies(tree[tlast.path].game, tlast.history, i - 1).game)
                      = Side(tree[<<>>].game)
                 THEN "rollout"
                 ELSE "opponent"

C19_Witness ==
    /\ tlast.op = "cycle" /\ tlast.ret = "OkTrue"
    /\ Len(tlast.path) >= 1
    /\ Len(tlast.history) >= 2
    /\ Pass \in Range(tlast.history)
    /\ Range(tlast.asked) = {"rollout", "opponent"}

\* Node a beats node b in the order of the win averages: a node never
\* visited loses to a visited one, two such nodes tie, two visited nodes
\* compare by wins/total.
Beats(a, b) ==
    \/ a.total > 0 /\ b.total = 0
    \/ a.total > 0 /\ b.total > 0 /\ a.wins * b.total > b.wins * a.total

\* C20: for a root with at least one child, UctDecision.decide returns the
\* move of a root child whose total is maximal among the root's children,
\* WinAverageDecision.decide the move of a root child that no other child
\* beats; McstAgent::decide then yields that move, which is legal in the
\* root game.
C20_DecisionPicksABestChild ==
    (tlast.op = "decide" /\ Len(tlast.arg) = 2) =>
       /\ tlast.arg[1] \in children(tree, <<>>)
       /\ tlast.arg[2] = "UctDecision" =>
              \A c \in children(tree, <<>>) :
                 tree[<<c>>].total <= tree[<<tlast.arg[1]>>].total
       /\ tlast.arg[2] = "WinAverageDecision" =>
              \A c \in children(tree, <<>>) :
                 ~Beats(tree[<<c>>], tree[<<tlast.arg[1]>>])
       /\ tlast.ret = Some(tlast.arg[1])
       /\ LegalIn(tree[<<>>].game, tlast.arg[1])

C20_Witness ==
    /\ tlast.op = "decide" /\ Len(tlast.arg) = 2
    /\ tlast.arg[2] = "WinAverageDecision"
    /\ \E c \in children(tree, <<>>) :
          /\ tree[<<c>>].total = 0
          /\ Beats(tree[<<tlast.arg[1]>>], tree[<<c>>])

\* The node at path p has a child for each legal move of its game.
FullyExpanded(t, p) ==
    \A m \in Range(get_moves(t[p].game).ret) : m \in children(t, p)

\* The proper prefixes of the path p.
ProperPrefixes(p) == {SubSeq(p, 1, i) : i \in 0..(Len(p) - 1)}

\* C21: for every tree, every path UctSelection.select may return leads
\* to a node of the tree that is terminal or has a legal move that is not
\* yet a child, and every node at a proper prefix of the path is not
\* terminal and has a child for each of its legal moves.
C21_UctSelectsAFrontierNode ==
    \A p \in UctSelection_select(tree) :
       /\ search(tree, p)
       /\ \/ is_terminal(tree[p].game)
          \/ ~FullyExpanded(tree, p)
       /\ \A q \in ProperPrefixes(p) :
             /\ ~is_terminal(tree[q].game)
             /\ FullyExpanded(tree, q)

C21_Witness ==
    /\ tlast.op = "cycle" /\ tlast.ret = "OkTrue"
    /\ Len(tlast.arg[2]) >= 1
    /\ \E p \in UctSelection_select(tree) : Len(p) >= 2
    /\ \E p \in UctSelection_select(tree) : Len(p) >= 1 /\ is_terminal(tree[p].game)

\* The UCB1 score the specification gives a child with w wins in n >= 1
\* visits under a parent with N >= 1 visits, in units of 1/ScoreScale:
\* w/n + c * sqrt(ln(N) / n), the first term negated at opponent plies.
Ucb1(negate, w, n, N) ==
    (IF negate THEN -1 ELSE 1) * ((w * ScoreScale) \div n) + explore[N][n]

\* The child m of the node at path q has a UCB1 score that no other child
\* of that node exceeds.
MaximizesUcb1(t, q, m, negate) ==
    \A c \in children(t, q) :
       Ucb1(negate, t[Append(q, c)].wins, t[Append(q, c)].total, t[q].total)
          <= Ucb1(negate, t[Append(q, m)].wins, t[Append(q, m)].total, t[q].total)

\* C22 (the claim as stated): at every step of a descent UctSelection
\* moves to a child that maximizes w/n + c*sqrt(ln(N)/n), N being the
\* visit count of the node it leaves and n the visit count of the child,
\* with w/n negated at opponent plies. The steps looked at are those where
\* the node left and all its children have been visited, so that the
\* score is a number.
C22_DescentMaximizesUcb1 ==
    \A p \in UctSelection_select(tree) :
       \A i \in 1..Len(p) :
          (/\ tree[SubSeq(p, 1, i - 1)].total >= 1
           /\ \A c \in children(tree, SubSeq(p, 1, i - 1)) :
                 tree[Append(SubSeq(p, 1, i - 1), c)].total >= 1)
          => MaximizesUcb1(tree, SubSeq(p, 1, i - 1), p[i], i % 2 = 0)

\* The last call on the agent was made with BfsSelectionFast as policy.
BfsCall(tl) ==
    /\ tl.op \in {"cycle", "select"}
    /\ Len(tl.arg) = 2
    /\ tl.arg[1] = "BfsSelectionFast"

\* What C23 says of a select (cyc false) or a cycle (cyc true) that took
\* the tree and the queue from t to t1 and q1 and selected p.
KeepsItsLeaf(t, t1, q1, p, cyc) ==
    /\ search(t, p)
    /\ ~is_terminal(t[p].game)
    /\ ~FullyExpanded(t, p)
    /\ ~FullyExpanded(t1, p) => BfsSelectionFast_select(t1, q1).ret = Some(p)
    /\ cyc => /\ Cardinality(DOMAIN t1 \ DOMAIN t) = 1
              /\ DOMAIN t \subseteq DOMAIN t1
              /\ \A q \in DOMAIN t1 \ DOMAIN t :
                    /\ Len(q) = Len(p) + 1
                    /\ HasPrefix(q, p)
                    /\ LegalIn(t[p].game, q[Len(q)])

\* C23: when BfsSelectionFast.select returns Some(p), p is the path of a
\* node that is not terminal and has a legal move that is not a child;
\* the next select returns the same p as long as that node has such a
\* move, children added in between or not; and a cycle with BfsExpansion
\* adds exactly one node to the tree, a child of the node at p.
C23_BfsKeepsItsLeaf ==
    [][ (BfsCall(tlast') /\ tlast'.arg[2].some) =>
           KeepsItsLeaf(tree, tree', queue', tlast'.arg[2].val, tlast'.op = "cycle") ]_vars

C23_Witness ==
    /\ BfsCall(tlast) /\ tlast.op = "select" /\ tlast.arg[2].some
    /\ Len(tlast.arg[2].val) >= 1
    /\ children(tree, tlast.arg[2].val) # {}
    /\ ~FullyExpanded(tree, tlast.arg[2].val)

\* C24: after every next_two_moves that returned true on an agent with
\* BfsSelectionFast, the policy has been notified and its queue holds the
\* empty path and nothing else, whatever it held before (nothing, if the
\* policy had returned None).
C24_ReRootResetsTheQueue ==
    (tlast.op = "next_two_moves" /\ Len(tlast.arg) = 3 /\ tlast.ret) =>
       /\ tlast.notified
       /\ queue = << <<>> >>
       /\ \A i \in DOMAIN queue : search(tree, queue[i])

C24_Witness ==
    /\ tlast.op = "next_two_moves" /\ Len(tlast.arg) = 3 /\ tlast.ret
    /\ tlast.arg[3] = <<>>
    /\ queue = << <<>> >>

\* The number of sequences of legal moves from the game g, the empty one
\* included.
RECURSIVE LegalSequences(_)
LegalSequences(g) ==
    LET RECURSIVE sum(_, _)
        sum(ms, i) ==
            IF i > Len(ms)
            THEN 0
            ELSE LegalSequences(make_move_fast(clone(g), ms[i]).game) + sum(ms, i + 1)
    IN  1 + sum(get_moves(g).ret, 1)

Exhausted == BfsCall(tlast) /\ tlast.op = "cycle" /\ tlast.ret = "OkFalse"

\* C25: on a fresh agent with BfsSelectionFast and BfsExpansion that is
\* not re-rooted, calling cycle() again and again eventually returns
\* Ok(false); whenever it does, every node that is not terminal has a
\* child for each of its legal moves, and node_count() of the root is the
\* number of sequences of legal moves from the root's game.
C25_BfsEnumeratesTheGame ==
    /\ <>Exhausted
    /\ [](Exhausted =>
            /\ \A p \in DOMAIN tree :
                  ~is_terminal(tree[p].game) => FullyExpanded(tree, p)
            /\ node_count(tree, <<>>) = LegalSequences(tree[<<>>].game))

C25_Witness ==
    /\ Exhausted
    /\ node_count(tree, <<>>) >= 7
    /\ \E p \in DOMAIN tree : Len(p) = 4 /\ Pass \in Range(p)

\* The nodes at depth d.
Depth(t, d) == {p \in DOMAIN t : Len(p) = d}

\* C26: on a fresh agent with BfsSelectionFast and BfsExpansion built on
\* the standard opening, after 16 cycles that returned Ok(true) the root
\* has four children, one for each opening move of Black, each of them
\* has three children, twelve in all; and whenever a node of depth 3
\* exists all twelve nodes of depth 2 do.
C26_OpeningPliesOneAndTwo ==
    (/\ fresh
     /\ tree[<<>>].game.board = Gamestate_new.board
     /\ tree[<<>>].game.turn = 0) =>
       /\ cycles = 16 =>
             /\ children(tree, <<>>) = Range(get_moves(Gamestate_new).ret)
             /\ Cardinality(children(tree, <<>>)) = 4
             /\ \A c \in children(tree, <<>>) : Cardinality(children(tree, <<c>>)) = 3
             /\ Cardinality(Depth(tree, 2)) = 12
             /\ Depth(tree, 3) = {}
       /\ Depth(tree, 3) # {} => Cardinality(Depth(tree, 2)) = 12

C26_Witness ==
    /\ fresh
    /\ tree[<<>>].game.board = Gamestate_new.board
    /\ cycles = 17
    /\ Cardinality(Depth(tree, 3)) = 1
    /\ tlast.op = "cycle" /\ tlast.ret = "OkTrue" /\ Len(tlast.history) >= 40

\* The moves of turns applied one after the other to the game g: the game
\* they lead to, and whether each of them was legal.
Replay(g, turns) == make_moves_fast(clone(g), turns)

\* C27: when play_memory_agents returns, its game is terminal, the score
\* it returns is that game's score, and the history it returns holds every
\* move made in the game, in order: replayed from the initial state, it is
\* legal at every step and leads to the board and the turn counter of the
\* game's final state.
C27_ReturnedHistoryIsTheGame ==
    play.pc = "returned" =>
        /\ is_terminal(play.game)
        /\ play.score = score(play.game)
        /\ play.history = play.applied
        /\ Replay(Gamestate_new, play.history).ret
        /\ Replay(Gamestate_new, play.history).game.board = play.game.board
        /\ Replay(Gamestate_new, play.history).game.turn = play.game.turn

\* The calls the driver made on agent i, in order.
CallsTo(i) == SelectSeq(play.calls, LAMBDA c : c.agent = i)

\* C28: each agent is initialised once, before any other call on it; the
\* agent asked for a move is agent1 when Black is to move and agent2 when
\* White is; after its initialisation an agent's calls alternate between
\* make_move and opponent_move, starting with make_move, and each
\* opponent_move carries the move the other agent has just returned, a
\* pass included.
C28_DriverProtocol ==
    /\ \A i \in {1, 2} :
          /\ \A n \in DOMAIN CallsTo(i) :
                CallsTo(i)[n].op = IF n = 1 THEN "initialize_game"
                                   ELSE IF n % 2 = 0 THEN "make_move"
                                   ELSE "opponent_move"
          /\ play.pc \in {"loop", "returned"} => Len(CallsTo(i)) >= 1
    /\ \A n \in DOMAIN play.calls :
          /\ play.calls[n].op = "make_move" =>
                play.calls[n].side = IF play.calls[n].agent = 1 THEN "Black" ELSE "White"
          /\ play.calls[n].op = "opponent_move" =>
                /\ n > 1
                /\ play.calls[n - 1].op = "make_move"
                /\ play.calls[n - 1].agent # play.calls[n].agent
                /\ play.calls[n - 1].turn = play.calls[n].turn

C28_Witness ==
    /\ play.pc = "loop"
    /\ Len(play.applied) = MaxPlies
    /\ \E n \in DOMAIN play.calls :
          /\ play.calls[n].op = "opponent_move"
          /\ play.calls[n].turn = Pass
          /\ n < Len(play.calls)

\* C29: whenever make_move is called on a BfsMemoryAgent or a
\* UctMemoryAgent, the game at the root of its tree has the board and the
\* half-move counter of the driver's game, and whenever opponent_move is
\* called on one, its next_two_moves returns true.
C29_RootIsTheDriversGame ==
    /\ play.asked.some /\ play.asked.val.kind # "MemoryAgent" =>
          /\ play.asked.val.root_board = play.asked.val.game_board
          /\ play.asked.val.root_turn = play.asked.val.game_turn
    /\ play.told.some /\ mem[play.told.val[1]].kind # "MemoryAgent" =>
          play.told.val[2]

C29_Witness ==
    /\ play.pc = "loop"
    /\ play.asked.some
    /\ play.asked.val.kind = "BfsMemoryAgent"
    /\ Len(play.applied) = MaxPlies
    /\ play.applied[MaxPlies - 1] = Pass
    /\ play.told.some
    /\ mem[play.told.val[1]].kind = "MemoryAgent"

\* C30: a string that str_to_turns accepts is the string turns_to_str makes
\* of the turns parsed from it, and str_to_turns reads the example
\* "4,5;5,3;;3,2;2,3" as (4,5), (5,3), Pass, (3,2), (2,3).
C30_RenderOfParseIsTheText ==
    /\ codec.op = "turns_to_str" /\ codec.text.some => codec.ret = codec.text.val
    /\ codec.op = "str_to_turns" /\ codec.text.val = Example =>
           codec.ret = Some(<< <<4, 5>>, <<5, 3>>, Pass, <<3, 2>>, <<2, 3>> >>)

\* The tokens of a string: its maximal stretches without a ";".
Tokens(s) ==
    { SubSeq(s, a, b) : <<a, b>> \in
        { ab \in (1..(Len(s) + 1)) \X (0..Len(s)) :
            /\ ab[1] <= ab[2] + 1
            /\ ab[1] = 1 \/ s[ab[1] - 1] = ";"
            /\ ab[2] = Len(s) \/ s[ab[2] + 1] = ";"
            /\ \A i \in ab[1]..ab[2] : s[i] # ";" } }

\* One or more decimal digits that denote a number of 0..8.
IsNumeral(s) ==
    /\ s # <<>>
    /\ \A i \in DOMAIN s : s[i] \in Range(Digits)
    /\ DecimalValue(s) < BoardSize

\* Nothing at all, or two such numbers with one comma between them.
WellFormedToken(t) ==
    \/ t = <<>>
    \/ \E k \in DOMAIN t :
          /\ t[k] = ","
          /\ IsNumeral(SubSeq(t, 1, k - 1))
          /\ IsNumeral(SubSeq(t, k + 1, Len(t)))

\* C31: str_to_turns returns None for a string of which some token between
\* semicolons is neither empty nor two base-10 integers of 0..8 with one
\* comma between them.
C31_IllFormedTokenIsRejected ==
    codec.op = "str_to_turns" /\ (\E t \in Tokens(codec.text.val) : ~WellFormedToken(t))
        => codec.ret = None

\* C32: the score of a game is the number of its Black stones less the
\* number of its White stones, its size is at most the number of stones on
\* the board, which is at most 64, and no addition of the i8 sums that
\* score() makes leaves the i8 range.
C32_ScoreCountsStones ==
    /\ score(game) = StonesOf(game.board, "Black") - StonesOf(game.board, "White")
    /\ score(game) <= Stones(game.board)
    /\ -score(game) <= Stones(game.board)
    /\ Stones(game.board) <= 64
    /\ ~score_overflows(game.board)
    /\ last.op = "score" => last.ret.ok /\ last.ret.val = score(game)

C32_Witness ==
    /\ last.op = "score"
    /\ last.ret.val = 64
    /\ before.turn = 1
    /\ before.moves.some

\* C35: whenever a Gamestate holds a memoized move list, the list is the
\* one gen_moves computes from its board and its half-move counter; this
\* holds for the game after any of its operations and for the clone taken
\* before the operation, and get_moves returns that list.
C35_MemoizedMovesAreCurrent ==
    /\ game.moves.some => game.moves.val = gen_moves(game)
    /\ before.moves.some => before.moves.val = gen_moves(before)
    /\ last.op = "get_moves" => last.ret.val = gen_moves(game)

C35_Witness ==
    /\ last.op = "make_moves_fast"
    /\ Len(last.arg) = 2
    /\ ~last.ret.ok
    /\ game.turn = before.turn + 1
    /\ before.moves.some
    /\ game.moves.some
    /\ game.moves.val # before.moves.val

\* C38: the array compact_to_tensor makes of a compact value has 192
\* entries; cell n has the entries 3n, 3n+1 and 3n+2, of which the one
\* numbered by the cell's base-3 digit is true and the other two are false;
\* so 64 entries are true, and no other compact value gives the same array.
C38_TensorIsOneHot ==
    tensor.op = "compact_to_tensor" =>
        /\ DOMAIN tensor.v = 0..191
        /\ \A n \in 0..63 : \A k \in Trits :
               tensor.v[3 * n + k] = (tensor.compact[n + 1] = k)
        /\ Cardinality({i \in DOMAIN tensor.v : tensor.v[i]}) = 64
        /\ \A c \in Compacts : c # tensor.compact => compact_to_tensor(c) # tensor.v

\* C34: next() of BfsAllGamestates never panics and never leaves the
\* iterator in InitLevel; each state it gives has the board of the state
\* that a breadth-first traversal with a queue gives at the same place
\* (each state popped pushes its children, one for each of its moves, in
\* their order); and it gives None only when that queue is empty, no state
\* being left on the next level.
C34_IteratorIsBreadthFirst ==
    /\ got.panic = ""
    /\ bag.status # "InitLevel"
    /\ got.op = "next" /\ got.ret.some =>
          /\ want.unwrap
          /\ want.expected.some
          /\ got.ret.val.board = want.expected.val.board
          /\ got.ret.val.turn = want.expected.val.turn
    /\ got.op = "next" /\ ~got.ret.some => want.q = <<>>

C34_Witness ==
    /\ got.op = "next"
    /\ ~got.ret.some
    /\ bag.status = "Exhausted"
    /\ bag.level = 3
    /\ want.expected.some
    /\ want.expected.val.turn = 2
    /\ want.q = <<>>

\* C37: on an agent with BfsSelectionFast and BfsExpansion, after any calls
\* of cycle() and of next_two_moves(), failed or not, every path in the
\* policy's queue is the path of a node of the tree; no select and no cycle
\* panics, and no cycle returns an error of the selection or the expansion.
C37_QueuedPathsAreNodes ==
    /\ \A i \in DOMAIN queue : search(tree, queue[i])
    /\ tlast.op \in {"select", "cycle"} =>
          tlast.ret \notin {"Panic", "Selection::NotANode",
                            "Expansion::AlreadyExpanded", "Expansion::IllegalMove"}

C37_Witness ==
    /\ ~fresh
    /\ tlast.op = "cycle"
    /\ tlast.ret = "OkTrue"
    /\ queue # <<>>
    /\ \A i \in DOMAIN queue : Len(queue[i]) >= 1

\* A step of the game is a legal move: the half-move counter goes up by
\* one; a coordinate move fills its cell, which was empty, and empties no
\* cell; a pass leaves the board as it is and does not follow a pass.
LegalStep ==
    /\ last'.op = "make_move_fast"
    /\ last'.ret.ok
    /\ game'.turn = game.turn + 1
    /\ \A c \in Idx \X Idx :
          game.board[c[2]][c[1]] # "Empty" => game'.board[c[2]][c[1]] # "Empty"
    /\ IF last'.arg = Pass
       THEN /\ game'.board = game.board
            /\ ~(last.op = "make_move_fast" /\ last.arg = Pass)
       ELSE /\ game.board[last'.arg[2]][last'.arg[1]] = "Empty"
            /\ EmptyCells(game'.board) = EmptyCells(game.board) \ {last'.arg}

\* C36: every game of legal moves ends: each move is a LegalStep; the
\* half-move counter is at most one more than twice the number of stones
\* put on the board since the standard start (which has four), hence
\* below 2^8; and the game comes to a state in which no move is left, and
\* stays there.
C36_EveryGameEnds ==
    /\ [][LegalStep]_vars
    /\ [](game.turn <= 2 * (Stones(game.board) - 4) + 1 /\ game.turn < U8)
    /\ <>[](get_moves(game).ret = <<>>)

C36_Witness ==
    /\ last.op = "make_move_fast"
    /\ last.arg = WipeOut[Len(WipeOut)]
    /\ game.turn = Len(WipeOut)
    /\ StonesOf(game.board, "White") = 0
    /\ get_moves(game).ret = <<>>

\* C33 as stated: parsing the rendering of a list of moves returns that
\* list, for every list. It fails for the empty list, whose rendering is
\* the empty string, and the empty string parses to one Pass.
C33_ParseOfRenderIsTheList ==
    (codec.op = "str_to_turns" /\ codec.turns.some)
        => codec.ret = Some(codec.turns.val)

\* C33, amended: parsing the rendering of a list of moves returns that list
\* when the list is not empty, and the list of one Pass when it is empty.
C33_ParseOfRenderIsTheNonEmptyList ==
    (codec.op = "str_to_turns" /\ codec.turns.some)
        => /\ codec.text = Some(turns_to_str(codec.turns.val))
           /\ codec.ret = IF codec.turns.val = <<>>
                          THEN Some(<< Pass >>)
                          ELSE Some(codec.turns.val)

C33_Witness ==
    /\ codec.op = "str_to_turns"
    /\ codec.turns = Some(<< <<4, 5>>, Pass >>)
    /\ codec.text = Some(<< "4", ",", "5", ";" >>)
    /\ codec.ret = Some(<< <<4, 5>>, Pass >>)

====
